---- MODULE Spec2Model ----
(***************************************************************************)
(* A model of the client-side reactive store (createStore, createActions), *)
(* the auth store built on it (authStore, authActions), and the error      *)
(* boundaries (AdvancedErrorBoundary, retryImport, ErrorBoundary), the     *)
(* ThemeProvider, the API client's interceptors, loginSchema, the store    *)
(* middleware, useAsyncData and the ErrorReportingService.                 *)
(*                                                                         *)
(* The JavaScript event loop is single-threaded: every action below is one *)
(* run-to-completion stretch of code (an invocation up to its first await  *)
(* on the network, or the continuation that runs when the awaited network  *)
(* promise settles, together with the microtask continuations it           *)
(* triggers).                                                              *)
(***************************************************************************)
EXTENDS Integers, Sequences, FiniteSets, TLC

(***************************************************************************)
(* Bounds of the model.                                                    *)
(***************************************************************************)
\* Number of identities (action invocations and page loads) a behaviour uses.
MaxCalls == 3
\* Numbers a key of the generic store takes: 0..MaxVal.
MaxVal == 2
\* Stores created one after another under the same persistKey.
MaxStores == 2

\* The largest retryCount retryImport is given.
MaxRetryCount == 4

\* Animation-frame callbacks that can be pending together.
MaxFrames == 2

\* Requests of the API client that can be in flight together.
MaxRequests == 2

\* The longest password handed to loginSchema.
MaxPasswordLength == 130

\* Updates batchingMiddleware holds before a flush.
MaxPending == 2

\* Renders of DashboardContent.
MaxRenders == 4

\* Reports made by the error reporting service.
MaxReports == 2

\* 'online' events, each of which starts a flush.
MaxFlushes == 1

(***************************************************************************)
(* JavaScript values.  Every value is a record [t, s, n]: t is the kind,   *)
(* s the primitive content, n the identity of an object (0 for primitives) *)
(* so that Object.is on two objects compares identities, not contents.     *)
(***************************************************************************)
Absent == [t |-> "absent", s |-> "", n |-> 0]      \* the key is not in the object
Null == [t |-> "null", s |-> "", n |-> 0]
True == [t |-> "bool", s |-> "true", n |-> 0]
False == [t |-> "bool", s |-> "false", n |-> 0]
\* A number; n holds its value.
Num(v) == [t |-> "number", s |-> "", n |-> v]
\* new Error(msg): an object with no enumerable own property.
Err(msg, ref) == [t |-> "error", s |-> msg, n |-> ref]
\* A User object; its content is abstracted to its name.
UserObj(name, ref) == [t |-> "user", s |-> name, n |-> ref]

Names == {"ann", "bob"}

\* Identities of the objects created by invocation / page load i.
OptRef(i) == 2 * i
SrvRef(i) == 2 * i + 1

Keys ==
  {"user", "isAuthenticated", "isLoading", "error", "loginLoading", "loginError",
   "logoutLoading", "logoutError", "updateProfileLoading", "updateProfileError",
   "initializeLoading", "initializeError"}

\* authStore.ts: initialState.  logoutError, initializeLoading and
\* initializeError are not keys of it.
initialState ==
  [k \in Keys |->
     CASE k \in {"user", "error", "loginError", "updateProfileError"} -> Null
       [] k \in {"isAuthenticated", "isLoading", "loginLoading", "logoutLoading",
                 "updateProfileLoading"} -> False
       [] OTHER -> Absent]

\* Object.keys(obj): an object is a function on the keys it may ever have,
\* Absent where it does not have the key.
ObjectKeys(obj) == {k \in DOMAIN obj : obj[k] # Absent}

\* { ...a, ...partial } for a partial given as a function on some keys.
Spread(a, partial) ==
  [k \in DOMAIN a |-> IF k \in DOMAIN partial /\ partial[k] # Absent THEN partial[k] ELSE a[k]]

\* shallowEqual(a, b): same keys, Object.is on every value.
shallowEqual(a, b) ==
  /\ Cardinality(ObjectKeys(a)) = Cardinality(ObjectKeys(b))
  /\ \A k \in ObjectKeys(a) : k \in ObjectKeys(b) /\ a[k] = b[k]

(***************************************************************************)
(* JSON.stringify / JSON.parse of a state.  A serialized value has no      *)
(* identity; an Error serializes to "{}"; absent keys are not written.     *)
(***************************************************************************)
StringifyValue(v) ==
  CASE v.t = "error" -> [t |-> "object", s |-> "{}", n |-> 0]
    [] v.t \in {"user", "object"} -> [v EXCEPT !.n = 0]
    [] OTHER -> v

JSONstringify(st) == [k \in DOMAIN st |-> StringifyValue(st[k])]

\* Parsing creates fresh objects, all given the identity ref.
ParseValue(v, ref) ==
  IF v.t \in {"user", "object"} THEN [v EXCEPT !.n = ref] ELSE v

JSONparse(json, ref) == [k \in DOMAIN json |-> ParseValue(json[k], ref)]

\* An entry of localStorage under persistKey: nothing, a JSON text, or a text
\* JSON.parse throws on.
NoItem == [kind |-> "none", json |-> <<>>]
Garbage == [kind |-> "garbage", json |-> <<>>]
Item(json) == [kind |-> "json", json |-> json]

VARIABLES
  state,        \* createStore: let state (the auth store's state)
  persisted,    \* localStorage['auth-state']
  token,        \* localStorage['auth-token'] is present
  calls,        \* the invocations of authActions: position and locals of each
  nextId,       \* the next unused identity
  settled       \* how the invocation that settled last ended

VARIABLES
  gState,       \* createStore: let state (a store of numbers with a persistKey)
  gPersisted,   \* localStorage[persistKey] of that store
  gListeners,   \* createStore: const listeners
  gSupplied,    \* per key, the value the latest setState that included it gave
  gCreated,     \* how many stores have been created under persistKey
  gOp,          \* the latest call on the store: "create", "setState", ...
  gNotified,    \* per listener, how often that call called it
  gSeen,        \* what getState() gave the listeners that call called
  gWrote        \* that call wrote localStorage[persistKey]

VARIABLES
  level,        \* AdvancedErrorBoundary: props.level ("none": not given)
  customFallback, \* AdvancedErrorBoundary: props.fallback is given
  onErrorGiven, \* AdvancedErrorBoundary: props.onError is given
  onErrorArg,   \* the error props.onError was last called with ("none": never)
  mounted,      \* the boundary is mounted
  hasError,     \* this.state.hasError
  stateError,   \* this.state.error ("none": null)
  retryCount,   \* this.state.retryCount
  retryTimeoutId, \* this.retryTimeoutId is not null
  retryTimer,   \* the delay of the pending retry timeout, 0 when none is pending
  autoRetries   \* retry() runs since the mount or the latest manualRetry()

VARIABLES
  riArg,        \* retryImport: the retryCount the outermost call was given
  riLeft,       \* retryImport: retryCount of the call that is running
  riPc,         \* "idle", "importing", "waiting", "resolved" or "rejected"
  riCalls,      \* how many times importFn has been called
  riDelays,     \* the delays waited so far, in milliseconds
  riErrors,     \* the errors of the failed attempts, in order
  riResult,     \* what the outermost promise settled with ("none": pending)
  ebFallback,   \* ErrorBoundary: props.fallback is a "function", a "node" or "none"
  ebOnError,    \* ErrorBoundary: props.onError is given
  ebHasError,   \* ErrorBoundary: this.state.hasError
  ebError,      \* ErrorBoundary: this.state.error ("none": null)
  ebOnErrorCalls \* the errors props.onError has been called with, in order

authVars == <<state, persisted, token, calls, nextId, settled>>

riVars == <<riArg, riLeft, riPc, riCalls, riDelays, riErrors, riResult>>

ebVars == <<ebFallback, ebOnError, ebHasError, ebError, ebOnErrorCalls>>

lazyVars == <<riVars, ebVars>>

boundaryVars ==
  <<level, customFallback, onErrorGiven, onErrorArg, mounted, hasError, stateError,
    retryCount, retryTimeoutId, retryTimer, autoRetries>>

storeVars ==
  <<gState, gPersisted, gListeners, gSupplied, gCreated, gOp, gNotified, gSeen, gWrote>>

VARIABLES
  themeMounted, \* ThemeProvider: the mount effects have run
  mode,         \* ThemeProvider: const [mode, setMode]
  theme,        \* ThemeProvider: const [theme, setTheme]
  resolvedMode, \* ThemeProvider: const [resolvedMode, setResolvedMode]
  prevThemeRef, \* prevThemeRef.current
  prevResolvedModeRef, \* prevResolvedModeRef.current
  isInitializedRef, \* isInitializedRef.current
  timeoutId,    \* the pending debounce timeout and the values its closure holds
  frames,       \* the pending requestAnimationFrame callbacks, in order
  systemPreference, \* what matchMedia('(prefers-color-scheme: dark)') gives
  themeMode,    \* localStorage['theme-mode']
  themeConfig,  \* localStorage['theme-config']
  rootClasses,  \* document.documentElement.classList
  rootProperties \* the theme whose custom properties the root's style carries

themeVars ==
  <<themeMounted, mode, theme, resolvedMode, prevThemeRef, prevResolvedModeRef,
    isInitializedRef, timeoutId, frames, systemPreference, themeMode, themeConfig,
    rootClasses, rootProperties>>

VARIABLES
  authTokenKey, \* env.AUTH_TOKEN_KEY
  refreshTokenKey, \* env.AUTH_REFRESH_TOKEN_KEY
  apiStorage,   \* localStorage: which of the entries other than 'auth-token' are present
  apiToken,     \* localStorage['auth-token'] is present, as the API client's page sees it
  location,     \* window.location.href
  inFlight,     \* the requests sent and not answered: was Authorization attached
  lastSettled   \* how the request answered last settled ("none": none yet)

apiVars ==
  <<authTokenKey, refreshTokenKey, apiStorage, apiToken, location, inFlight, lastSettled>>

VARIABLES
  formData,     \* the object handed to loginSchema: emailOrUsername, password length
  parseResult   \* what loginSchema.safeParse(formData) gave ("none": not parsed yet)

schemaVars == <<formData, parseResult>>

VARIABLES
  mwKind,       \* the middleware the store was created with
  mwThrower,    \* a listener that throws is subscribed, after the others
  mwThrown,     \* what the latest setState through the middleware threw
  pendingUpdates, \* batchingMiddleware: let pendingUpdates
  updateScheduled, \* batchingMiddleware: let updateScheduled
  mwSequential  \* the state the pending updates give when applied one by one

middlewareVars ==
  <<mwKind, mwThrower, mwThrown, pendingUpdates, updateScheduled, mwSequential>>

VARIABLES
  adUserId,     \* DashboardContent: the userId prop of the latest render ("none": not rendered)
  adRenders,    \* how many times DashboardContent has been rendered
  adPromises,   \* the promises promiseFactory has returned, in order
  adMemo,       \* useAsyncData: what useMemo holds for the component
  adUsed,       \* the promise the latest render handed to use() (0: none)
  adView,       \* what AsyncBoundary shows: "none", "fallback" or "data"
  adOp          \* the latest step: "none", "render" or "settle"

asyncDataVars == <<adUserId, adRenders, adPromises, adMemo, adUsed, adView, adOp>>

VARIABLES
  isOnline,     \* ErrorReportingService: this.isOnline
  errors,       \* this.errors, the stored reports
  erStorage,    \* localStorage 'error_reports'
  erReported,   \* how many reports reportError has made
  erDirect,     \* per report: the send reportError started ("none": no send)
  erFlushes     \* the flushPendingErrors calls: their snapshot and their sends

reportingVars ==
  <<isOnline, errors, erStorage, erReported, erDirect, erFlushes>>

vars ==
  <<authVars, storeVars, boundaryVars, lazyVars, themeVars, apiVars,
    schemaVars, middlewareVars, asyncDataVars, reportingVars>>

notAuth ==
  <<storeVars, boundaryVars, lazyVars, themeVars, apiVars, schemaVars,
    middlewareVars, asyncDataVars, reportingVars>>

notStore ==
  <<authVars, boundaryVars, lazyVars, themeVars, apiVars, schemaVars,
    middlewareVars, asyncDataVars, reportingVars>>

notBoundary ==
  <<authVars, storeVars, lazyVars, themeVars, apiVars, schemaVars,
    middlewareVars, asyncDataVars, reportingVars>>

notLazy ==
  <<authVars, storeVars, boundaryVars, themeVars, apiVars, schemaVars,
    middlewareVars, asyncDataVars, reportingVars>>

notTheme ==
  <<authVars, storeVars, boundaryVars, lazyVars, apiVars, schemaVars,
    middlewareVars, asyncDataVars, reportingVars>>

notApi ==
  <<authVars, storeVars, boundaryVars, lazyVars, themeVars, schemaVars,
    middlewareVars, asyncDataVars, reportingVars>>

notSchema ==
  <<authVars, storeVars, boundaryVars, lazyVars, themeVars, apiVars,
    middlewareVars, asyncDataVars, reportingVars>>

notMiddleware ==
  <<authVars, storeVars, boundaryVars, lazyVars, themeVars, apiVars,
    schemaVars, asyncDataVars, reportingVars>>

notStoreNorMiddleware ==
  <<authVars, boundaryVars, lazyVars, themeVars, apiVars, schemaVars,
    asyncDataVars, reportingVars>>

notAsyncData ==
  <<authVars, storeVars, boundaryVars, lazyVars, themeVars, apiVars,
    schemaVars, middlewareVars, reportingVars>>

notReporting ==
  <<authVars, storeVars, boundaryVars, lazyVars, themeVars, apiVars,
    schemaVars, middlewareVars, asyncDataVars>>

(***************************************************************************)
(* createStore                                                             *)
(***************************************************************************)
\* createStore's load of the persisted state (a page load evaluates it):
\* state = { ...initialState, ...JSON.parse(persisted) }, or initialState when
\* there is no item or JSON.parse throws.
createStore(initial, item, ref) ==
  IF item.kind = "json" THEN Spread(initial, JSONparse(item.json, ref))
  ELSE initial

\* A setState that replaces the state by the partial instead of merging.
setStateReplacing(st, ps, partial) ==
  IF ~shallowEqual(st, partial)
    THEN [st |-> partial, ps |-> Item(JSONstringify(partial))]
    ELSE [st |-> st, ps |-> ps]

\* setState(partial) on the store whose state is st and whose persisted item
\* is ps: the new state and the new item.  Nothing is written when the merged
\* state is shallow-equal to the current one.
setState(st, ps, partial) ==
  LET newState == Spread(st, partial)
  IN IF ~shallowEqual(st, newState)
       THEN [st |-> newState, ps |-> Item(JSONstringify(newState))]
       ELSE [st |-> st, ps |-> ps]

(***************************************************************************)
(* createActions                                                           *)
(***************************************************************************)
loadingKey(name) == name \o "Loading"
errorKey(name) == name \o "Error"

\* createAsyncAction, before asyncFn is called.
asyncStart(name, st, ps) ==
  setState(st, ps, (loadingKey(name) :> True) @@ (errorKey(name) :> Null))

\* createAsyncAction, after asyncFn has resolved.
asyncResolved(name, st, ps) ==
  setState(st, ps, (loadingKey(name) :> False))

\* createAsyncAction, the catch block.
asyncRejected(name, st, ps, error) ==
  setState(st, ps, (loadingKey(name) :> False) @@ (errorKey(name) :> error))

\* createOptimisticAction, the optimistic update applied at invocation.
optimisticStart(st, ps, optimistic) == setState(st, ps, optimistic)

\* A catch block that rethrows without reverting.
revertSkipped(st, ps, currentState) == [st |-> st, ps |-> ps]

\* createOptimisticAction, the catch block: store.setState(currentState).
optimisticRevert(st, ps, currentState) == setState(st, ps, currentState)

(***************************************************************************)
(* The invocations of authActions.                                         *)
(***************************************************************************)
Ids == 1..MaxCalls

Idle == [act |-> "none", pc |-> "idle", snap |-> initialState, arg |-> ""]

NotSettled == [id |-> 0, act |-> "none", outcome |-> "none", value |-> Null, error |-> Null]

Resolved(i, act, value) ==
  [id |-> i, act |-> act, outcome |-> "resolved", value |-> value, error |-> Null]

Rejected(i, act, error) ==
  [id |-> i, act |-> act, outcome |-> "rejected", value |-> Null, error |-> error]

Fetching(i, act) == calls[i].act = act /\ calls[i].pc = "fetching"

LoginErrors == {"Invalid credentials", "NetworkError"}
ProfileErrors == {"Failed to update profile", "NetworkError"}
InitErrors == {"Invalid token", "NetworkError"}

\* authActions.login(credentials), up to the await of fetch.
login(i) ==
  /\ i = nextId /\ i <= MaxCalls
  /\ LET r == asyncStart("login", state, persisted)
     IN state' = r.st /\ persisted' = r.ps
  /\ calls' = [calls EXCEPT ![i] = [Idle EXCEPT !.act = "login", !.pc = "fetching"]]
  /\ nextId' = i + 1
  /\ UNCHANGED <<token, settled>>
  /\ UNCHANGED notAuth

\* A login body that stores the user but leaves isAuthenticated alone.
loginWithoutFlag(st, ps, userData) ==
  setState(st, ps, [user |-> userData, error |-> Null])

\* The body of login after an ok response: the store and the token.
loginSucceeded(st, ps, userData) ==
  setState(st, ps, [user |-> userData, isAuthenticated |-> True, error |-> Null])

\* login's response is ok: the body runs to its end and the wrapper resolves.
loginResolve(i, name) ==
  /\ Fetching(i, "login")
  /\ LET userData == UserObj(name, SrvRef(i))
         r1 == loginSucceeded(state, persisted, userData)
         r2 == asyncResolved("login", r1.st, r1.ps)
     IN /\ state' = r2.st /\ persisted' = r2.ps
        /\ settled' = Resolved(i, "login", userData)
  /\ token' = TRUE
  /\ calls' = [calls EXCEPT ![i] = Idle]
  /\ UNCHANGED nextId
  /\ UNCHANGED notAuth

\* login's response is not ok (Invalid credentials) or fetch rejects.
loginReject(i, msg) ==
  /\ Fetching(i, "login")
  /\ LET error == Err(msg, SrvRef(i))
         r == asyncRejected("login", state, persisted, error)
     IN /\ state' = r.st /\ persisted' = r.ps
        /\ settled' = Rejected(i, "login", error)
  /\ calls' = [calls EXCEPT ![i] = Idle]
  /\ UNCHANGED <<token, nextId>>
  /\ UNCHANGED notAuth

\* The body of logout after fetch has resolved: the store is cleared.
logoutSucceeded(st, ps) ==
  setState(st, ps, [user |-> Null, isAuthenticated |-> False, error |-> Null])

\* authActions.logout(), up to the await of fetch.
logout(i) ==
  /\ i = nextId /\ i <= MaxCalls
  /\ LET r == asyncStart("logout", state, persisted)
     IN state' = r.st /\ persisted' = r.ps
  /\ calls' = [calls EXCEPT ![i] = [Idle EXCEPT !.act = "logout", !.pc = "fetching"]]
  /\ nextId' = i + 1
  /\ UNCHANGED <<token, settled>>
  /\ UNCHANGED notAuth

\* logout's fetch resolves (its status is not looked at).
logoutResolve(i) ==
  /\ Fetching(i, "logout")
  /\ LET r1 == logoutSucceeded(state, persisted)
         r2 == asyncResolved("logout", r1.st, r1.ps)
     IN state' = r2.st /\ persisted' = r2.ps
  /\ token' = FALSE
  /\ settled' = Resolved(i, "logout", Null)
  /\ calls' = [calls EXCEPT ![i] = Idle]
  /\ UNCHANGED nextId
  /\ UNCHANGED notAuth

\* logout's fetch rejects.
logoutReject(i) ==
  /\ Fetching(i, "logout")
  /\ LET error == Err("NetworkError", SrvRef(i))
         r == asyncRejected("logout", state, persisted, error)
     IN /\ state' = r.st /\ persisted' = r.ps
        /\ settled' = Rejected(i, "logout", error)
  /\ calls' = [calls EXCEPT ![i] = Idle]
  /\ UNCHANGED <<token, nextId>>
  /\ UNCHANGED notAuth

\* updateProfile's optimisticUpdate(state, updates):
\* { user: state.user ? { ...state.user, ...updates } : null }
optimisticUpdate(st, name, ref) ==
  [user |-> IF st["user"] # Null THEN UserObj(name, ref) ELSE Null]

\* authActions.updateProfile(updates), up to the await of fetch.
updateProfile(i, name) ==
  /\ i = nextId /\ i <= MaxCalls
  /\ LET r == optimisticStart(state, persisted, optimisticUpdate(state, name, OptRef(i)))
     IN state' = r.st /\ persisted' = r.ps
  /\ calls' = [calls EXCEPT ![i] =
                 [act |-> "updateProfile", pc |-> "fetching", snap |-> state, arg |-> name]]
  /\ nextId' = i + 1
  /\ UNCHANGED <<token, settled>>
  /\ UNCHANGED notAuth

\* The body of updateProfile after an ok response.
profileSucceeded(st, ps, updatedUser) == setState(st, ps, [user |-> updatedUser])

\* updateProfile's response is ok; the server answers with the updated user.
updateProfileResolve(i) ==
  /\ Fetching(i, "updateProfile")
  /\ LET updatedUser == UserObj(calls[i].arg, SrvRef(i))
         r == profileSucceeded(state, persisted, updatedUser)
     IN /\ state' = r.st /\ persisted' = r.ps
        /\ settled' = Resolved(i, "updateProfile", updatedUser)
  /\ calls' = [calls EXCEPT ![i] = Idle]
  /\ UNCHANGED <<token, nextId>>
  /\ UNCHANGED notAuth

\* updateProfile's response is not ok, or fetch rejects: the catch block.
updateProfileReject(i, msg) ==
  /\ Fetching(i, "updateProfile")
  /\ LET error == Err(msg, SrvRef(i))
         r == optimisticRevert(state, persisted, calls[i].snap)
     IN /\ state' = r.st /\ persisted' = r.ps
        /\ settled' = Rejected(i, "updateProfile", error)
  /\ calls' = [calls EXCEPT ![i] = Idle]
  /\ UNCHANGED <<token, nextId>>
  /\ UNCHANGED notAuth

\* authActions.initializeAuth(), up to the await of fetch, or up to
\* `return null` when there is no token.
initializeAuth(i) ==
  /\ i = nextId /\ i <= MaxCalls
  /\ LET r == asyncStart("initialize", state, persisted)
     IN state' = r.st /\ persisted' = r.ps
  /\ calls' = [calls EXCEPT ![i] =
                 [Idle EXCEPT !.act = "initialize",
                              !.pc = IF token THEN "fetching" ELSE "noToken"]]
  /\ nextId' = i + 1
  /\ UNCHANGED <<token, settled>>
  /\ UNCHANGED notAuth

\* initializeAuth found no token: the wrapper's continuation after `return null`.
initializeNoToken(i) ==
  /\ calls[i].act = "initialize" /\ calls[i].pc = "noToken"
  /\ LET r == asyncResolved("initialize", state, persisted)
     IN state' = r.st /\ persisted' = r.ps
  /\ settled' = Resolved(i, "initialize", Null)
  /\ calls' = [calls EXCEPT ![i] = Idle]
  /\ UNCHANGED <<token, nextId>>
  /\ UNCHANGED notAuth

\* The body of initializeAuth after an ok response.
initializeSucceeded(st, ps, userData) ==
  setState(st, ps, [user |-> userData, isAuthenticated |-> True, isLoading |-> False])

\* /api/auth/me answers ok.
initializeResolve(i, name) ==
  /\ Fetching(i, "initialize")
  /\ LET userData == UserObj(name, SrvRef(i))
         r1 == initializeSucceeded(state, persisted, userData)
         r2 == asyncResolved("initialize", r1.st, r1.ps)
     IN /\ state' = r2.st /\ persisted' = r2.ps
        /\ settled' = Resolved(i, "initialize", userData)
  /\ calls' = [calls EXCEPT ![i] = Idle]
  /\ UNCHANGED <<token, nextId>>
  /\ UNCHANGED notAuth

\* /api/auth/me answers not ok (the token is removed) or fetch rejects.
initializeReject(i, msg) ==
  /\ Fetching(i, "initialize")
  /\ LET error == Err(msg, SrvRef(i))
         r == asyncRejected("initialize", state, persisted, error)
     IN /\ state' = r.st /\ persisted' = r.ps
        /\ settled' = Rejected(i, "initialize", error)
  /\ token' = IF msg = "Invalid token" THEN FALSE ELSE token
  /\ calls' = [calls EXCEPT ![i] = Idle]
  /\ UNCHANGED nextId
  /\ UNCHANGED notAuth

\* authActions.clearError()
clearError ==
  /\ LET r == setState(state, persisted,
                       [error |-> Null, loginError |-> Null, updateProfileError |-> Null])
     IN state' = r.st /\ persisted' = r.ps
  /\ UNCHANGED <<token, calls, nextId, settled>>
  /\ UNCHANGED notAuth

\* The page is loaded again: the module is evaluated anew, createStore reads
\* localStorage['auth-state'], and the invocations of the old page are gone.
\* While the page was closed the item may have been overwritten with a text
\* that is not JSON.
Reload(corrupted) ==
  /\ nextId <= MaxCalls
  /\ persisted' = IF corrupted THEN Garbage ELSE persisted
  /\ state' = createStore(initialState, persisted', SrvRef(nextId))
  /\ calls' = [i \in Ids |-> Idle]
  /\ settled' = NotSettled
  /\ nextId' = nextId + 1
  /\ UNCHANGED token
  /\ UNCHANGED notAuth



(***************************************************************************)
(* A store created by createStore(initialState, { persistKey }) whose keys *)
(* hold numbers: a and b are keys of initialState, c is an optional key.   *)
(***************************************************************************)
Vals == {Num(v) : v \in 0..MaxVal}

gInitial == [a |-> Num(0), b |-> Num(0), c |-> Absent]

\* The objects setState is given: any keys, any numbers (Absent: not given).
Partials == [DOMAIN gInitial -> Vals \cup {Absent}]

\* The functions setState is given, by name.
Updaters == {"incrementA", "copyAtoB", "swapAB"}

\* The updater applied to a state.
Apply(fn, st) ==
  CASE fn = "incrementA" ->
         [a |-> Num((st["a"].n + 1) % (MaxVal + 1)), b |-> Absent, c |-> Absent]
    [] fn = "copyAtoB" -> [a |-> Absent, b |-> st["a"], c |-> Absent]
    [] fn = "swapAB" -> [a |-> st["b"], b |-> st["a"], c |-> Absent]

Listeners == {"l1", "l2"}

\* setState: typeof partial === 'function' ? partial(state) : partial
evaluate(fn, st) == Apply(fn, st)

\* No listener is called.
NoneNotified == [l \in Listeners |-> 0]

\* getState() was not called by any listener.
NotSeen == [a |-> Absent, b |-> Absent, c |-> Absent]

\* A forEach that calls the listeners on every setState, changed or not.
notifyAlways(changed, listeners) == [l \in Listeners |-> IF l \in listeners THEN 1 ELSE 0]

\* setState: inside `if (!shallowEqual(state, newState))`,
\* listeners.forEach((listener) => listener()).
notify(changed, listeners) ==
  [l \in Listeners |-> IF changed /\ l \in listeners THEN 1 ELSE 0]

\* setState's test: !shallowEqual(state, { ...state, ...nextState })
changes(st, nextState) == ~shallowEqual(st, Spread(st, nextState))

\* store.setState(partial) with an object.
setStateObject(partial) ==
  /\ LET r == setState(gState, gPersisted, partial)
     IN gState' = r.st /\ gPersisted' = r.ps
  /\ gSupplied' = [k \in DOMAIN gSupplied |->
                     IF partial[k] # Absent THEN partial[k] ELSE gSupplied[k]]
  /\ gOp' = "setState"
  /\ gNotified' = notify(changes(gState, partial), gListeners)
  /\ gSeen' = IF \E l \in Listeners : gNotified'[l] > 0 THEN gState' ELSE NotSeen
  /\ gWrote' = changes(gState, partial)
  /\ UNCHANGED <<gListeners, gCreated>>
  /\ UNCHANGED notStore

\* store.setState(fn) with a function of the state.
setStateFunction(fn) ==
  /\ LET r == setState(gState, gPersisted, evaluate(fn, gState))
     IN gState' = r.st /\ gPersisted' = r.ps
  /\ gSupplied' = [k \in DOMAIN gSupplied |->
                     IF Apply(fn, gState)[k] # Absent THEN Apply(fn, gState)[k]
                     ELSE gSupplied[k]]
  /\ gOp' = "setState"
  /\ gNotified' = notify(changes(gState, evaluate(fn, gState)), gListeners)
  /\ gSeen' = IF \E l \in Listeners : gNotified'[l] > 0 THEN gState' ELSE NotSeen
  /\ gWrote' = changes(gState, evaluate(fn, gState))
  /\ UNCHANGED <<gListeners, gCreated>>
  /\ UNCHANGED notStore

\* store.subscribe(listener)
subscribe(l) ==
  /\ l \notin gListeners
  /\ gListeners' = gListeners \cup {l}
  /\ gOp' = "subscribe"
  /\ gNotified' = NoneNotified
  /\ gSeen' = NotSeen
  /\ gWrote' = FALSE
  /\ UNCHANGED <<gState, gPersisted, gSupplied, gCreated>>
  /\ UNCHANGED notStore

\* The function subscribe returned.
unsubscribe(l) ==
  /\ l \in gListeners
  /\ gListeners' = gListeners \ {l}
  /\ gOp' = "unsubscribe"
  /\ gNotified' = NoneNotified
  /\ gSeen' = NotSeen
  /\ gWrote' = FALSE
  /\ UNCHANGED <<gState, gPersisted, gSupplied, gCreated>>
  /\ UNCHANGED notStore

\* A destroy that clears the listeners and leaves the persisted entry.
destroyKeepsItem ==
  /\ gListeners # {} \/ gPersisted # NoItem
  /\ gListeners' = {}
  /\ gOp' = "destroy"
  /\ gNotified' = NoneNotified
  /\ gSeen' = NotSeen
  /\ gWrote' = FALSE
  /\ UNCHANGED <<gState, gPersisted, gSupplied, gCreated>>
  /\ UNCHANGED notStore

\* store.destroy()
destroy ==
  /\ gListeners # {} \/ gPersisted # NoItem
  /\ gListeners' = {}
  /\ gPersisted' = NoItem
  /\ gOp' = "destroy"
  /\ gNotified' = NoneNotified
  /\ gSeen' = NotSeen
  /\ gWrote' = FALSE
  /\ UNCHANGED <<gState, gSupplied, gCreated>>
  /\ UNCHANGED notStore

\* createStore(gInitial, { persistKey }) again: a new store, no listener yet.
recreate ==
  /\ gCreated < MaxStores
  /\ gState' = createStore(gInitial, gPersisted, 0)
  /\ gSupplied' = gState'
  /\ gListeners' = {}
  /\ gCreated' = gCreated + 1
  /\ gOp' = "create"
  /\ gNotified' = NoneNotified
  /\ gSeen' = NotSeen
  /\ gWrote' = FALSE
  /\ UNCHANGED gPersisted
  /\ UNCHANGED notStore

StoreNext ==
  \/ \E partial \in Partials : setStateObject(partial)
  \/ \E fn \in Updaters : setStateFunction(fn)
  \/ \E l \in Listeners : subscribe(l)
  \/ \E l \in Listeners : unsubscribe(l)
  \/ destroy
  \/ recreate

(***************************************************************************)
(* AdvancedErrorBoundary                                                   *)
(***************************************************************************)
maxRetries == 3

Levels == {"page", "feature", "component", "none"}

Errors == {"e1", "e2"}

\* A delay that grows by one second per retry.
retryDelayLinear(count) == (count + 1) * 1000

\* scheduleRetry: Math.pow(2, this.state.retryCount) * 1000
retryDelay(count) == (2 ^ count) * 1000

\* renderDefaultFallback: the level the default fallback is drawn for.
fallbackLevel == IF level = "none" THEN "component" ELSE level

\* renderDefaultFallback: canRetry && !isRetrying, on the levels that have the
\* button.
showsRetryButton ==
  LET isRetrying == retryCount > 0 /\ retryCount < maxRetries
      canRetry == retryCount < maxRetries
  IN fallbackLevel \in {"feature", "component"} /\ canRetry /\ ~isRetrying

\* The children throw while rendering: getDerivedStateFromError, then
\* componentDidCatch with its scheduleRetry.
componentDidCatch(e) ==
  /\ mounted /\ ~hasError
  /\ hasError' = TRUE
  /\ stateError' = e
  /\ IF level = "component" /\ retryCount < maxRetries
       THEN retryTimer' = retryDelay(retryCount) /\ retryTimeoutId' = TRUE
       ELSE UNCHANGED <<retryTimer, retryTimeoutId>>
  /\ onErrorArg' = IF onErrorGiven THEN e ELSE onErrorArg
  /\ UNCHANGED <<level, customFallback, onErrorGiven, mounted, retryCount, autoRetries>>
  /\ UNCHANGED notBoundary

\* The retry timeout fires: retry().
retry ==
  /\ retryTimer # 0
  /\ hasError' = FALSE
  /\ stateError' = "none"
  /\ retryCount' = retryCount + 1
  /\ retryTimer' = 0
  /\ autoRetries' = autoRetries + 1
  /\ UNCHANGED <<level, customFallback, onErrorGiven, onErrorArg, mounted, retryTimeoutId>>
  /\ UNCHANGED notBoundary

\* manualRetry(), from the default fallback's button or from props.fallback,
\* which is handed it.  The pending timeout is not cleared.
manualRetry ==
  /\ mounted /\ hasError
  /\ customFallback \/ showsRetryButton
  /\ hasError' = FALSE
  /\ stateError' = "none"
  /\ retryCount' = 0
  /\ autoRetries' = 0
  /\ UNCHANGED <<level, customFallback, onErrorGiven, onErrorArg, mounted, retryTimeoutId,
                 retryTimer>>
  /\ UNCHANGED notBoundary

\* componentWillUnmount: if (this.retryTimeoutId) clearTimeout(...).
componentWillUnmount ==
  /\ mounted
  /\ mounted' = FALSE
  /\ retryTimer' = 0
  /\ UNCHANGED <<level, customFallback, onErrorGiven, onErrorArg, hasError, stateError,
                 retryCount, retryTimeoutId, autoRetries>>
  /\ UNCHANGED notBoundary

BoundaryNext ==
  \/ \E e \in Errors : componentDidCatch(e)
  \/ retry
  \/ manualRetry
  \/ componentWillUnmount

(***************************************************************************)
(* retryImport, and the ErrorBoundary that AsyncBoundary puts around the   *)
(* lazy component.                                                         *)
(***************************************************************************)

Modules == {"module"}

\* A delay of one second before every retry.
importDelayConstant(left) == 1000

\* retryImport: Math.pow(2, 3 - retryCount) * 1000, an integer number of
\* milliseconds while retryCount (here: left) <= 6.
importDelay(left) ==
  IF left <= 3
    THEN (2 ^ (3 - left)) * 1000
    ELSE 1000 \div (2 ^ (left - 3))

\* lazy() runs its factory on the first render: retryImport(importFn,
\* retryCount) calls importFn.
retryImport ==
  /\ riPc = "idle"
  /\ riPc' = "importing"
  /\ riCalls' = riCalls + 1
  /\ UNCHANGED <<riArg, riLeft, riDelays, riErrors, riResult>>
  /\ UNCHANGED ebVars
  /\ UNCHANGED notLazy

\* importFn's promise resolves: return await importFn().
importFnResolves(m) ==
  /\ riPc = "importing"
  /\ riPc' = "resolved"
  /\ riResult' = m
  /\ UNCHANGED <<riArg, riLeft, riCalls, riDelays, riErrors>>
  /\ UNCHANGED ebVars
  /\ UNCHANGED notLazy

\* importFn's promise rejects: the catch block either starts the wait or
\* rethrows.
importFnRejects(e) ==
  /\ riPc = "importing"
  /\ riErrors' = Append(riErrors, e)
  /\ IF riLeft > 0
       THEN /\ riPc' = "waiting"
            /\ riDelays' = Append(riDelays, importDelay(riLeft))
            /\ UNCHANGED riResult
       ELSE /\ riPc' = "rejected"
            /\ riResult' = e
            /\ UNCHANGED riDelays
  /\ UNCHANGED <<riArg, riLeft, riCalls>>
  /\ UNCHANGED ebVars
  /\ UNCHANGED notLazy

\* The timeout of the wait fires: return retryImport(importFn, retryCount - 1),
\* which calls importFn.
delayElapsed ==
  /\ riPc = "waiting"
  /\ riLeft' = riLeft - 1
  /\ riPc' = "importing"
  /\ riCalls' = riCalls + 1
  /\ UNCHANGED <<riArg, riDelays, riErrors, riResult>>
  /\ UNCHANGED ebVars
  /\ UNCHANGED notLazy

Fallbacks == {"function", "node", "none"}

\* A render that shows the children whatever the state.
renderChildren == [shows |-> "children", error |-> "none"]

\* ErrorBoundary.render
ErrorBoundary_render ==
  IF ebHasError /\ ebError # "none"
    THEN IF ebFallback = "function"
           THEN [shows |-> "fallback(error)", error |-> ebError]
           ELSE IF ebFallback # "none"
                  THEN [shows |-> "fallback", error |-> "none"]
                  ELSE [shows |-> "default error UI", error |-> ebError]
    ELSE [shows |-> "children", error |-> "none"]

\* The rendered children throw e: the lazy component throws what its promise
\* was rejected with, the loaded component may throw any error.
\* getDerivedStateFromError, then componentDidCatch.
ErrorBoundary_componentDidCatch(e) ==
  /\ ErrorBoundary_render.shows = "children"
  /\ \/ riPc = "rejected" /\ e = riResult
     \/ riPc = "resolved"
  /\ ebHasError' = TRUE
  /\ ebError' = e
  /\ ebOnErrorCalls' = IF ebOnError THEN Append(ebOnErrorCalls, e) ELSE ebOnErrorCalls
  /\ UNCHANGED <<ebFallback, ebOnError>>
  /\ UNCHANGED riVars
  /\ UNCHANGED notLazy

\* The parent renders the boundary again with other props.
ErrorBoundary_setProps(fallback, onError) ==
  /\ <<fallback, onError>> # <<ebFallback, ebOnError>>
  /\ ebFallback' = fallback
  /\ ebOnError' = onError
  /\ UNCHANGED <<ebHasError, ebError, ebOnErrorCalls>>
  /\ UNCHANGED riVars
  /\ UNCHANGED notLazy

LazyNext ==
  \/ retryImport
  \/ \E m \in Modules : importFnResolves(m)
  \/ \E e \in Errors : importFnRejects(e)
  \/ delayElapsed
  \/ \E e \in Errors : ErrorBoundary_componentDidCatch(e)
  \/ \E fallback \in Fallbacks, onError \in BOOLEAN : ErrorBoundary_setProps(fallback, onError)

(***************************************************************************)
(* ThemeProvider.  A state change, the render it causes and the effects of *)
(* that render are one step; the debounce timeout and the animation frame  *)
(* are steps of their own.  A theme is named by the object it is: "base"   *)
(* is baseTheme, "saved" the object JSON.parse made of 'theme-config'.     *)
(***************************************************************************)

ThemeModes == {"light", "dark", "system"}

Themes == {"base", "saved", "custom"}

\* localStorage['theme-mode']: absent, a ThemeMode, or another string.
StoredModes == {"none", "light", "dark", "system", "other"}

\* localStorage['theme-config']: absent, text that is not JSON, JSON without
\* colors/typography, or a serialized theme.
StoredConfigs == {"none", "notJSON", "noColors", "theme"}

NoTimeout == [theme |-> "none", mode |-> "none"]

\* A resolver that ignores the system preference.
resolveModeLight(currentMode) == IF currentMode = "system" THEN "light" ELSE currentMode

\* resolveMode, with getSystemPreference
resolveMode(currentMode) == IF currentMode = "system" THEN systemPreference ELSE currentMode

\* The "apply theme" effect after a render with these values: its cleanup
\* clears the timeout of the previous run, then debouncedApplyTheme sets one.
debouncedApplyTheme(currentTheme, currentResolvedMode) ==
  IF currentTheme # theme \/ currentResolvedMode # resolvedMode \/ ~themeMounted
    THEN [theme |-> currentTheme, mode |-> currentResolvedMode]
    ELSE timeoutId

\* The mount: loadSavedPreferences, the system preference effect and the
\* apply effect, then the render with the state they set and its effects.
ThemeProvider_mount ==
  LET savedMode == themeMode
      savedTheme == themeConfig
      failed == savedTheme = "notJSON"
      newMode == IF savedMode \in ThemeModes THEN savedMode ELSE mode
      newTheme == IF savedTheme = "theme" THEN "saved" ELSE theme
      newResolved == resolveMode(newMode)
  IN /\ ~themeMounted
     /\ themeMounted' = TRUE
     /\ mode' = newMode
     /\ theme' = newTheme
     /\ resolvedMode' = newResolved
     /\ timeoutId' = debouncedApplyTheme(newTheme, newResolved)
     /\ themeMode' = IF failed THEN "none" ELSE themeMode
     /\ themeConfig' = IF failed THEN "none" ELSE themeConfig
     /\ UNCHANGED <<prevThemeRef, prevResolvedModeRef, isInitializedRef, frames,
                    systemPreference, rootClasses, rootProperties>>
     /\ UNCHANGED notTheme

\* handleSetMode(newMode), the render and the effects that depend on mode.
handleSetMode(newMode) ==
  LET newResolved == IF newMode # mode THEN resolveMode(newMode) ELSE resolvedMode
  IN /\ themeMounted
     /\ mode' = newMode
     /\ themeMode' = newMode
     /\ resolvedMode' = newResolved
     /\ timeoutId' = debouncedApplyTheme(theme, newResolved)
     /\ UNCHANGED <<themeMounted, theme, prevThemeRef, prevResolvedModeRef,
                    isInitializedRef, frames, systemPreference, themeConfig,
                    rootClasses, rootProperties>>
     /\ UNCHANGED notTheme

\* handleSetTheme(newTheme), the render and the apply effect.
handleSetTheme(newTheme) ==
  /\ themeMounted
  /\ theme' = newTheme
  /\ themeConfig' = "theme"
  /\ timeoutId' = debouncedApplyTheme(newTheme, resolvedMode)
  /\ UNCHANGED <<themeMounted, mode, resolvedMode, prevThemeRef, prevResolvedModeRef,
                 isInitializedRef, frames, systemPreference, themeMode,
                 rootClasses, rootProperties>>
  /\ UNCHANGED notTheme

\* The system colour scheme changes; handleChange is subscribed once the
\* provider is mounted.
handleChange(matches) ==
  LET newMode == IF matches THEN "dark" ELSE "light"
      newResolved == IF themeMounted /\ mode = "system" THEN newMode ELSE resolvedMode
  IN /\ newMode # systemPreference
     /\ systemPreference' = newMode
     /\ resolvedMode' = newResolved
     /\ timeoutId' = IF themeMounted THEN debouncedApplyTheme(theme, newResolved)
                                     ELSE timeoutId
     /\ UNCHANGED <<themeMounted, mode, theme, prevThemeRef, prevResolvedModeRef,
                    isInitializedRef, frames, themeMode, themeConfig,
                    rootClasses, rootProperties>>
     /\ UNCHANGED notTheme

\* The debounce timeout fires: applyTheme(theme, resolvedMode) up to its
\* requestAnimationFrame call.
applyTheme ==
  LET currentTheme == timeoutId.theme
      currentResolvedMode == timeoutId.mode
      themeChanged == prevThemeRef # currentTheme
      modeChanged == prevResolvedModeRef # currentResolvedMode
  IN /\ timeoutId # NoTimeout
     /\ timeoutId' = NoTimeout
     /\ IF ~themeChanged /\ ~modeChanged /\ isInitializedRef
          THEN UNCHANGED frames
          ELSE /\ Len(frames) < MaxFrames
               /\ frames' = Append(frames, [theme |-> currentTheme,
                                            mode |-> currentResolvedMode,
                                            themeChanged |-> themeChanged,
                                            modeChanged |-> modeChanged])
     /\ UNCHANGED <<themeMounted, mode, theme, resolvedMode, prevThemeRef,
                    prevResolvedModeRef, isInitializedRef, systemPreference,
                    themeMode, themeConfig, rootClasses, rootProperties>>
     /\ UNCHANGED notTheme

\* One requestAnimationFrame callback of applyTheme: updateProperties, then
\* the refs.  dom is the root and the refs it runs on.
updateProperties(f, dom) ==
  [classes |-> IF f.modeChanged \/ ~dom.initialized
                 THEN (dom.classes \ {"light", "dark"}) \cup {f.mode}
                 ELSE dom.classes,
   properties |-> IF f.themeChanged \/ ~dom.initialized THEN f.theme ELSE dom.properties,
   prevTheme |-> f.theme,
   prevMode |-> f.mode,
   initialized |-> TRUE]

RECURSIVE runFrames(_, _)
runFrames(queue, dom) ==
  IF queue = <<>> THEN dom
                  ELSE runFrames(Tail(queue), updateProperties(Head(queue), dom))

\* An animation frame: the browser runs the pending callbacks in order.
animationFrame ==
  LET dom == runFrames(frames, [classes |-> rootClasses,
                                properties |-> rootProperties,
                                prevTheme |-> prevThemeRef,
                                prevMode |-> prevResolvedModeRef,
                                initialized |-> isInitializedRef])
  IN /\ frames # <<>>
     /\ frames' = <<>>
     /\ rootClasses' = dom.classes
     /\ rootProperties' = dom.properties
     /\ prevThemeRef' = dom.prevTheme
     /\ prevResolvedModeRef' = dom.prevMode
     /\ isInitializedRef' = dom.initialized
     /\ UNCHANGED <<themeMounted, mode, theme, resolvedMode, timeoutId,
                    systemPreference, themeMode, themeConfig>>
     /\ UNCHANGED notTheme

ThemeNext ==
  \/ ThemeProvider_mount
  \/ \E newMode \in ThemeModes : handleSetMode(newMode)
  \/ \E newTheme \in Themes : handleSetTheme(newTheme)
  \/ \E matches \in BOOLEAN : handleChange(matches)
  \/ applyTheme
  \/ animationFrame

(***************************************************************************)
(* The API client: the axios instance with its request and response        *)
(* interceptors.  A response and the interceptor that handles it are one   *)
(* step.                                                                   *)
(***************************************************************************)

\* The storage keys env.ts falls back to.
EnvKeys == {"auth_token", "refresh_token"}

\* Values VITE_AUTH_TOKEN_KEY makes of env.AUTH_TOKEN_KEY: the default, or the
\* key authStore writes the token under.
AuthTokenKeys == {"auth_token", "auth-token"}

\* The statuses a response carries; 0 stands for an error without a response
\* (network failure, timeout).
Statuses == {0, 200, 401, 403, 404, 500}

NotAnswered == [kind |-> "none", status |-> 0]

\* localStorage.getItem(key) is not null
getItem(key) == IF key = "auth-token" THEN apiToken ELSE apiStorage[key]

\* A 401 handler that removes only the auth token.
removeTokensAuthOnly(present, key) == present /\ key # authTokenKey

\* The presence of localStorage[key] after the 401 branch of the response
\* interceptor: removeItem(env.AUTH_TOKEN_KEY), removeItem(env.AUTH_REFRESH_TOKEN_KEY).
removeTokens(present, key) == present /\ key # authTokenKey /\ key # refreshTokenKey

\* client(options): the request interceptor attaches the token, the request
\* is sent.
apiRequest ==
  /\ Len(inFlight) < MaxRequests
  /\ inFlight' = Append(inFlight, getItem(authTokenKey))
  /\ UNCHANGED <<authTokenKey, refreshTokenKey, apiStorage, apiToken, location, lastSettled>>
  /\ UNCHANGED notApi

\* The answer to the oldest request arrives: the response interceptor.
apiResponse(status) ==
  /\ inFlight # <<>>
  /\ inFlight' = Tail(inFlight)
  /\ IF status = 401
       THEN /\ apiStorage' = [k \in EnvKeys |-> removeTokens(apiStorage[k], k)]
            /\ apiToken' = removeTokens(apiToken, "auth-token")
            /\ location' = "/login"
       ELSE UNCHANGED <<apiStorage, apiToken, location>>
  /\ lastSettled' = IF status \in 200..299
                      THEN [kind |-> "resolved", status |-> status]
                      ELSE [kind |-> "rejected", status |-> status]
  /\ UNCHANGED <<authTokenKey, refreshTokenKey>>
  /\ UNCHANGED notApi

\* The application stores the tokens of a new session and leaves the login page.
apiSignIn ==
  /\ location = "/login" \/ ~getItem(authTokenKey)
  /\ apiStorage' = [k \in EnvKeys |-> TRUE]
  /\ apiToken' = TRUE
  /\ location' = "/"
  /\ UNCHANGED <<authTokenKey, refreshTokenKey, inFlight, lastSettled>>
  /\ UNCHANGED notApi

ApiNext ==
  \/ apiRequest
  \/ \E status \in Statuses : apiResponse(status)
  \/ apiSignIn

(***************************************************************************)
(* loginSchema.  A string is the sequence of its characters; a password is *)
(* given by its length, the only thing the schema looks at.                *)
(***************************************************************************)

NotParsed == [success |-> FALSE, issues |-> {"not parsed"}]

\* The emailOrUsername values tried.
Identifiers ==
  { <<>>,
    <<"a", "b">>,
    <<"a", "b", "c">>,
    <<"a", ".", "b", "-", "_">>,
    <<"a", " ", "b">>,
    <<"a", "@", "b">>,
    <<"a", "@", "b", ".", "c">>,
    <<"a", "@", "b", ".">>,
    <<"a", "@", "@", "b", ".", "c">>,
    <<"@", "b", ".", "c">> }

\* the characters of [a-zA-Z0-9_.-] that occur in Identifiers
UsernameChars == {"a", "b", "c", "_", ".", "-"}

\* [^\s@]+ matches the characters lo..hi of value
NoSpaceNoAt(value, lo, hi) ==
  /\ lo <= hi
  /\ \A i \in lo..hi : value[i] \notin {" ", "@"}

\* /^[^\s@]+@[^\s@]+\.[^\s@]+$/.test(value)
isEmail(value) ==
  \E at \in 1..Len(value), dot \in 1..Len(value) :
    /\ value[at] = "@"
    /\ value[dot] = "."
    /\ NoSpaceNoAt(value, 1, at - 1)
    /\ NoSpaceNoAt(value, at + 1, dot - 1)
    /\ NoSpaceNoAt(value, dot + 1, Len(value))

\* value.length >= 3 && /^[a-zA-Z0-9_.-]+$/.test(value)
isUsername(value) ==
  /\ Len(value) >= 3
  /\ \A i \in 1..Len(value) : value[i] \in UsernameChars

\* emailOrUsername: z.string().min(1, ...).refine(...)
emailOrUsernameIssues(value) ==
  (IF Len(value) >= 1 THEN {} ELSE {"Username or email is required"})
  \cup (IF isEmail(value) \/ isUsername(value)
          THEN {}
          ELSE {"Please enter a valid email address or username (min 3 characters)"})

\* password: z.string().min(6, ...).max(128, ...)
passwordIssues(length) ==
  (IF length >= 6 THEN {} ELSE {"Password must be at least 6 characters"})
  \cup (IF length <= 128 THEN {} ELSE {"Password must be less than 128 characters"})

\* loginSchema.safeParse(formData)
loginSchema ==
  LET issues == emailOrUsernameIssues(formData.emailOrUsername)
                  \cup passwordIssues(formData.password)
  IN /\ parseResult = NotParsed
     /\ parseResult' = [success |-> issues = {}, issues |-> issues]
     /\ UNCHANGED formData
     /\ UNCHANGED notSchema

SchemaNext == loginSchema

(***************************************************************************)
(* errorBoundaryMiddleware and batchingMiddleware, each around a store     *)
(* made by createStore(gInitial, { persistKey, middleware: [mwKind] }).    *)
(* subscribe, getState and destroy of the wrapped store are the base       *)
(* store's.                                                                *)
(***************************************************************************)

Middlewares == {"errorBoundary", "batching"}

\* The objects given to setState through a middleware.
MwPartials ==
  { [a |-> Num(1), b |-> Absent, c |-> Absent],
    [a |-> Absent, b |-> Num(2), c |-> Absent],
    [a |-> Num(2), b |-> Num(1), c |-> Absent],
    [a |-> Absent, b |-> Absent, c |-> Num(1)] }

\* {} as Partial<T>
EmptyPartial == [a |-> Absent, b |-> Absent, c |-> Absent]

\* The base setState (originalSetState) on a store that may have a throwing
\* listener: the state, the item, the listeners called, and whether the call
\* threw.  The throwing listener is called last, after state = newState and
\* the write.
originalSetState(st, ps, nextState) ==
  LET r == setState(st, ps, nextState)
      changed == changes(st, nextState)
  IN [st |-> r.st, ps |-> r.ps, changed |-> changed,
      notified |-> notify(changed, gListeners),
      threw |-> changed /\ mwThrower]

\* errorBoundaryMiddleware's catch: originalSetState({} as Partial<T>)
recover(r) == originalSetState(r.st, r.ps, EmptyPartial)

\* errorBoundaryMiddleware: setState(partial) with an object.
errorBoundarySetState(partial) ==
  LET r1 == originalSetState(gState, gPersisted, partial)
      r2 == IF r1.threw THEN recover(r1) ELSE r1
  IN /\ mwKind = "errorBoundary"
     /\ gState' = r2.st
     /\ gPersisted' = r2.ps
     /\ gOp' = "setState"
     /\ gNotified' = r1.notified
     /\ gSeen' = IF r1.changed /\ gListeners # {} THEN r1.st ELSE NotSeen
     /\ gWrote' = r1.changed
     /\ gSupplied' = [k \in DOMAIN gSupplied |->
                        IF partial[k] # Absent THEN partial[k] ELSE gSupplied[k]]
     /\ mwThrown' = IF r1.threw THEN "listener error" ELSE "none"
     /\ UNCHANGED <<gListeners, gCreated>>
     /\ UNCHANGED <<mwKind, mwThrower, pendingUpdates, updateScheduled, mwSequential>>
     /\ UNCHANGED notStoreNorMiddleware

\* errorBoundaryMiddleware: setState(fn) with a function that throws when the
\* store calls it.  Nothing has been assigned when it throws.
errorBoundarySetStateThrows ==
  LET r2 == recover([st |-> gState, ps |-> gPersisted])
  IN /\ mwKind = "errorBoundary"
     /\ gState' = r2.st
     /\ gPersisted' = r2.ps
     /\ gOp' = "setState"
     /\ gNotified' = r2.notified
     /\ gSeen' = NotSeen
     /\ gWrote' = r2.changed
     /\ mwThrown' = "updater error"
     /\ UNCHANGED <<gListeners, gCreated, gSupplied>>
     /\ UNCHANGED <<mwKind, mwThrower, pendingUpdates, updateScheduled, mwSequential>>
     /\ UNCHANGED notStoreNorMiddleware

\* store.subscribe(listener) with a listener that throws when called.
subscribeThrowing ==
  /\ mwKind = "errorBoundary"
  /\ ~mwThrower
  /\ mwThrower' = TRUE
  /\ UNCHANGED <<mwKind, mwThrown, pendingUpdates, updateScheduled, mwSequential>>
  /\ UNCHANGED storeVars
  /\ UNCHANGED notStoreNorMiddleware

\* batchingMiddleware's setState up to the scheduling of the flush: update is
\* the object, or the function applied to store.getState().
batchingPush(update, sequential) ==
  /\ mwKind = "batching"
  /\ Len(pendingUpdates) < MaxPending
  /\ pendingUpdates' = Append(pendingUpdates, update)
  /\ updateScheduled' = TRUE
  /\ mwSequential' = sequential
  /\ UNCHANGED <<mwKind, mwThrower, mwThrown>>
  /\ UNCHANGED storeVars
  /\ UNCHANGED notStoreNorMiddleware

\* The state the calls made since the last flush give without batching, before
\* this call.
sequentialBase == IF pendingUpdates = <<>> THEN gState ELSE mwSequential

\* batchingMiddleware: setState(partial) with an object.
batchingSetState(partial) ==
  batchingPush(partial, Spread(sequentialBase, partial))

\* batchingMiddleware: setState(fn) with a function of the state.
batchingSetStateFunction(fn) ==
  batchingPush(evaluate(fn, gState),
               Spread(sequentialBase, evaluate(fn, sequentialBase)))

\* pendingUpdates.reduce((acc, update) => ({ ...acc, ...update }), {})
RECURSIVE mergeUpdates(_, _)
mergeUpdates(acc, updates) ==
  IF updates = <<>> THEN acc
  ELSE mergeUpdates([k \in DOMAIN acc |->
                       IF Head(updates)[k] # Absent THEN Head(updates)[k] ELSE acc[k]],
                    Tail(updates))

\* The scheduled flush runs: flushUpdates.
flushUpdates ==
  LET mergedUpdate == mergeUpdates(EmptyPartial, pendingUpdates)
      r == originalSetState(gState, gPersisted, mergedUpdate)
  IN /\ mwKind = "batching"
     /\ updateScheduled
     /\ pendingUpdates' = <<>>
     /\ updateScheduled' = FALSE
     /\ gState' = r.st
     /\ gPersisted' = r.ps
     /\ gOp' = "setState"
     /\ gNotified' = r.notified
     /\ gSeen' = IF r.changed /\ gListeners # {} THEN r.st ELSE NotSeen
     /\ gWrote' = r.changed
     /\ gSupplied' = [k \in DOMAIN gSupplied |->
                        IF mergedUpdate[k] # Absent THEN mergedUpdate[k] ELSE gSupplied[k]]
     /\ UNCHANGED <<gListeners, gCreated>>
     /\ UNCHANGED <<mwKind, mwThrower, mwThrown, mwSequential>>
     /\ UNCHANGED notStoreNorMiddleware

MiddlewareNext ==
  \/ \E partial \in MwPartials : errorBoundarySetState(partial)
  \/ errorBoundarySetStateThrows
  \/ subscribeThrowing
  \/ \E l \in Listeners : subscribe(l)
  \/ \E l \in Listeners : unsubscribe(l)
  \/ \E partial \in MwPartials : batchingSetState(partial)
  \/ \E fn \in Updaters : batchingSetStateFunction(fn)
  \/ flushUpdates

(***************************************************************************)
(* useAsyncData, called by DashboardContent inside an AsyncBoundary.       *)
(* A function written in the component body is a new function on every     *)
(* render; functions are named by the number of the render that made them. *)
(***************************************************************************)

UserIds == {"u1", "u2"}

\* useMemo before its first computation.
NoMemo == [deps |-> <<0>>, promise |-> 0]

\* useAsyncData: the dependency list given to useMemo, [promiseFactory].
memoDeps(promiseFactory, deps) == <<promiseFactory>>

\* useMemo: the memoized value is reused when every dependency is the same.
memoHit(memo, deps) == memo # NoMemo /\ memo.deps = deps

\* fetchDashboardData(userId): a promise that is pending when it is returned.
fetchDashboardData(userId) == [userId |-> userId, settled |-> FALSE]

\* DashboardContent renders with userId: useAsyncData(() =>
\* fetchDashboardData(userId), [userId]), then use(promise).  A render that
\* suspends shows the boundary's fallback, and React keeps the hook state of
\* that attempt or throws it away.
renderDashboardContent(userId) ==
  /\ adRenders < MaxRenders
  /\ LET promiseFactory == adRenders + 1
         deps == memoDeps(promiseFactory, <<userId>>)
         hit == memoHit(adMemo, deps)
         promises == IF hit THEN adPromises
                            ELSE Append(adPromises, fetchDashboardData(userId))
         promise == IF hit THEN adMemo.promise ELSE Len(promises)
         memo == [deps |-> deps, promise |-> promise]
     IN /\ adPromises' = promises
        /\ adUsed' = promise
        /\ IF promises[promise].settled
             THEN adView' = "data" /\ adMemo' = memo
             ELSE adView' = "fallback" /\ adMemo' \in {memo, adMemo}
  /\ adUserId' = userId
  /\ adRenders' = adRenders + 1
  /\ adOp' = "render"
  /\ UNCHANGED notAsyncData

\* The timeout of a fetchDashboardData call passes: its promise resolves.
settlePromise(p) ==
  /\ p \in 1..Len(adPromises)
  /\ ~adPromises[p].settled
  /\ adPromises' = [adPromises EXCEPT ![p].settled = TRUE]
  /\ adOp' = "settle"
  /\ UNCHANGED <<adUserId, adRenders, adMemo, adUsed, adView>>
  /\ UNCHANGED notAsyncData

AsyncDataNext ==
  \/ \E userId \in UserIds : renderDashboardContent(userId)
  \/ \E p \in 1..MaxRenders : settlePromise(p)

(***************************************************************************)
(* ErrorReportingService.  A report is named by its number in the order of *)
(* the reportError calls.  A send (mockErrorReportingAPI) is "pending"     *)
(* until its timeout passes, and then "sent" or "failed".                  *)
(***************************************************************************)
maxErrors == 100

\* What storeError writes to localStorage: this.errors.slice(-10).
storedReports == 10

\* s.slice(-n)
sliceLast(s, n) == IF Len(s) <= n THEN s ELSE SubSeq(s, Len(s) - n + 1, Len(s))

\* The messages of the errors reported, and the words determineSeverity looks
\* for that each one includes.
MessageWords ==
  [ plain |-> {}, authExpired |-> {"auth"}, fetchFailed |-> {"fetch"},
    perfRender |-> {}, perfMemory |-> {} ]

\* error.message.includes(word)
includes(message, word) == word \in MessageWords[message]

\* new Error(`Performance issue: ${metric}`).message
performanceMessage(metric) ==
  IF metric = "component_render_time" THEN "perfRender" ELSE "perfMemory"

Metrics == {"component_render_time", "memory_usage"}

\* usePerformanceMonitoringWithErrors: the 16 ms threshold, and render times
\* on both sides of it and of its double.
Thresholds == {16}

RenderTimes == {16, 32, 33}

\* determineSeverity(error, context)
determineSeverity(message, context) ==
  IF context.level = "page" \/ includes(message, "auth") THEN "critical"
  ELSE IF context.level = "feature" \/ includes(message, "fetch")
            \/ includes(message, "network") THEN "high"
  ELSE IF context.level = "component" /\ context.retryCount > 0 THEN "medium"
  ELSE "low"

\* The contexts reportError is called with by the boundaries and hooks.
ErrorInputs ==
  { [message |-> "fetchFailed", level |-> "component", retryCount |-> 1] }

\* reportError(error, context): storeError, then sendError when online.
report(message, context) ==
  LET id == erReported + 1
      errorReport == [id |-> id, context |-> context,
                      severity |-> determineSeverity(message, context)]
      pushed == Append(errors, errorReport)
  IN /\ errors' = sliceLast(pushed, maxErrors)
     /\ erStorage' = sliceLast(errors', storedReports)
     /\ erReported' = id
     /\ erDirect' = IF isOnline THEN [erDirect EXCEPT ![id] = "pending"] ELSE erDirect
     /\ UNCHANGED <<isOnline, erFlushes>>
     /\ UNCHANGED notReporting

reportError(input) ==
  /\ erReported < MaxReports
  /\ report(input.message,
            [level |-> input.level, retryCount |-> input.retryCount,
             severity |-> "none", value |-> 0, threshold |-> 0])

\* reportPerformanceIssue(metric, value, threshold)
reportPerformanceIssue(metric, value, threshold) ==
  /\ erReported < MaxReports
  /\ IF value > threshold
       THEN report(performanceMessage(metric),
                   [level |-> "performance", retryCount |-> 0,
                    severity |-> IF value > threshold * 2 THEN "high" ELSE "medium",
                    value |-> value, threshold |-> threshold])
       ELSE /\ UNCHANGED <<isOnline, errors, erStorage, erReported, erDirect, erFlushes>>
            /\ UNCHANGED notReporting

\* A flush that goes on only after a send that succeeded.
flushContinuesOnSuccess(ok) == ok

\* flushPendingErrors after a send has settled: sendError catches the failure
\* of the send and resolves, so the loop's catch is never entered.
flushContinues(ok) == TRUE

\* The ids of the stored reports, [...this.errors].
pendingErrors == [i \in 1..Len(errors) |-> errors[i].id]

\* flushPendingErrors(): the loop up to its first await.
startFlush ==
  [snapshot |-> pendingErrors,
   sends |-> IF errors = <<>> THEN <<>> ELSE <<"pending">>]

\* The 'online' event.
online ==
  /\ ~isOnline
  /\ Len(erFlushes) < MaxFlushes
  /\ isOnline' = TRUE
  /\ erFlushes' = Append(erFlushes, startFlush)
  /\ UNCHANGED <<errors, erStorage, erReported, erDirect>>
  /\ UNCHANGED notReporting

\* The 'offline' event.
offline ==
  /\ isOnline
  /\ isOnline' = FALSE
  /\ UNCHANGED <<errors, erStorage, erReported, erDirect, erFlushes>>
  /\ UNCHANGED notReporting

\* The send reportError started settles; sendError catches a failure.
directSettles(id, ok) ==
  /\ erDirect[id] = "pending"
  /\ erDirect' = [erDirect EXCEPT ![id] = IF ok THEN "sent" ELSE "failed"]
  /\ UNCHANGED <<isOnline, errors, erStorage, erReported, erFlushes>>
  /\ UNCHANGED notReporting

\* The send a flush is waiting for settles, and the loop goes on.
flushSettles(f, ok) ==
  /\ f \in 1..Len(erFlushes)
  /\ erFlushes[f].sends # <<>>
  /\ LET fl == erFlushes[f]
         n == Len(fl.sends)
         done == [fl.sends EXCEPT ![n] = IF ok THEN "sent" ELSE "failed"]
     IN /\ fl.sends[n] = "pending"
        /\ erFlushes' =
             [erFlushes EXCEPT ![f].sends =
                IF flushContinues(ok) /\ n < Len(fl.snapshot)
                  THEN Append(done, "pending")
                  ELSE done]
  /\ UNCHANGED <<isOnline, errors, erStorage, erReported, erDirect>>
  /\ UNCHANGED notReporting

ReportingNext ==
  \/ \E input \in ErrorInputs : reportError(input)
  \/ \E metric \in Metrics, value \in RenderTimes, threshold \in Thresholds :
       reportPerformanceIssue(metric, value, threshold)
  \/ online
  \/ offline
  \/ \E id \in 1..MaxReports, ok \in BOOLEAN : directSettles(id, ok)
  \/ \E f \in 1..MaxFlushes, ok \in BOOLEAN : flushSettles(f, ok)

Next ==
  \/ \E i \in Ids : login(i)
  \/ \E i \in Ids, name \in Names : loginResolve(i, name)
  \/ \E i \in Ids, msg \in LoginErrors : loginReject(i, msg)
  \/ \E i \in Ids : logout(i)
  \/ \E i \in Ids : logoutResolve(i)
  \/ \E i \in Ids : logoutReject(i)
  \/ \E i \in Ids, name \in Names : updateProfile(i, name)
  \/ \E i \in Ids : updateProfileResolve(i)
  \/ \E i \in Ids, msg \in ProfileErrors : updateProfileReject(i, msg)
  \/ \E i \in Ids : initializeAuth(i)
  \/ \E i \in Ids : initializeNoToken(i)
  \/ \E i \in Ids, name \in Names : initializeResolve(i, name)
  \/ \E i \in Ids, msg \in InitErrors : initializeReject(i, msg)
  \/ clearError
  \/ \E corrupted \in BOOLEAN : Reload(corrupted)

\* The auth store after the module is evaluated with an empty localStorage.
Init ==
  /\ state = initialState
  /\ persisted = NoItem
  /\ token = FALSE
  /\ calls = [i \in Ids |-> Idle]
  /\ nextId = 1
  /\ settled = NotSettled
  /\ gState = gInitial
  /\ gPersisted = NoItem
  /\ gListeners = {}
  /\ gSupplied = gInitial
  /\ gCreated = 1
  /\ gOp = "create"
  /\ gNotified = NoneNotified
  /\ gSeen = NotSeen
  /\ gWrote = FALSE
  /\ level = "none"
  /\ customFallback = FALSE
  /\ onErrorGiven = FALSE
  /\ onErrorArg = "none"
  /\ mounted = TRUE
  /\ hasError = FALSE
  /\ stateError = "none"
  /\ retryCount = 0
  /\ retryTimeoutId = FALSE
  /\ retryTimer = 0
  /\ autoRetries = 0
  /\ riArg = 0
  /\ riLeft = 0
  /\ riPc = "idle"
  /\ riCalls = 0
  /\ riDelays = <<>>
  /\ riErrors = <<>>
  /\ riResult = "none"
  /\ ebFallback = "none"
  /\ ebOnError = FALSE
  /\ ebHasError = FALSE
  /\ ebError = "none"
  /\ ebOnErrorCalls = <<>>
  /\ themeMounted = FALSE
  /\ mode = "system"
  /\ theme = "base"
  /\ resolvedMode = "light"
  /\ prevThemeRef = "base"
  /\ prevResolvedModeRef = "light"
  /\ isInitializedRef = FALSE
  /\ timeoutId = NoTimeout
  /\ frames = <<>>
  /\ systemPreference = "light"
  /\ themeMode = "none"
  /\ themeConfig = "none"
  /\ rootClasses = {}
  /\ rootProperties = "none"
  /\ authTokenKey = "auth_token"
  /\ refreshTokenKey = "refresh_token"
  /\ apiStorage = [k \in EnvKeys |-> FALSE]
  /\ apiToken = FALSE
  /\ location = "/"
  /\ inFlight = <<>>
  /\ lastSettled = NotAnswered
  /\ formData = [emailOrUsername |-> <<>>, password |-> 0]
  /\ parseResult = NotParsed
  /\ mwKind = "errorBoundary"
  /\ mwThrower = FALSE
  /\ mwThrown = "none"
  /\ pendingUpdates = <<>>
  /\ updateScheduled = FALSE
  /\ mwSequential = gInitial
  /\ adUserId = "none"
  /\ adRenders = 0
  /\ adPromises = <<>>
  /\ adMemo = NoMemo
  /\ adUsed = 0
  /\ adView = "none"
  /\ adOp = "none"
  /\ isOnline = TRUE
  /\ errors = <<>>
  /\ erStorage = <<>>
  /\ erReported = 0
  /\ erDirect = [id \in 1..MaxReports |-> "none"]
  /\ erFlushes = <<>>

Spec == Init /\ [][Next]_vars

\* The store of numbers after createStore(gInitial, { persistKey }).
StoreInit ==
  /\ state = initialState
  /\ persisted = NoItem
  /\ token = FALSE
  /\ calls = [i \in Ids |-> Idle]
  /\ nextId = 1
  /\ settled = NotSettled
  /\ gState = gInitial
  /\ gPersisted = NoItem
  /\ gListeners = {}
  /\ gSupplied = gInitial
  /\ gCreated = 1
  /\ gOp = "create"
  /\ gNotified = NoneNotified
  /\ gSeen = NotSeen
  /\ gWrote = FALSE
  /\ level = "none"
  /\ customFallback = FALSE
  /\ onErrorGiven = FALSE
  /\ onErrorArg = "none"
  /\ mounted = TRUE
  /\ hasError = FALSE
  /\ stateError = "none"
  /\ retryCount = 0
  /\ retryTimeoutId = FALSE
  /\ retryTimer = 0
  /\ autoRetries = 0
  /\ riArg = 0
  /\ riLeft = 0
  /\ riPc = "idle"
  /\ riCalls = 0
  /\ riDelays = <<>>
  /\ riErrors = <<>>
  /\ riResult = "none"
  /\ ebFallback = "none"
  /\ ebOnError = FALSE
  /\ ebHasError = FALSE
  /\ ebError = "none"
  /\ ebOnErrorCalls = <<>>
  /\ themeMounted = FALSE
  /\ mode = "system"
  /\ theme = "base"
  /\ resolvedMode = "light"
  /\ prevThemeRef = "base"
  /\ prevResolvedModeRef = "light"
  /\ isInitializedRef = FALSE
  /\ timeoutId = NoTimeout
  /\ frames = <<>>
  /\ systemPreference = "light"
  /\ themeMode = "none"
  /\ themeConfig = "none"
  /\ rootClasses = {}
  /\ rootProperties = "none"
  /\ authTokenKey = "auth_token"
  /\ refreshTokenKey = "refresh_token"
  /\ apiStorage = [k \in EnvKeys |-> FALSE]
  /\ apiToken = FALSE
  /\ location = "/"
  /\ inFlight = <<>>
  /\ lastSettled = NotAnswered
  /\ formData = [emailOrUsername |-> <<>>, password |-> 0]
  /\ parseResult = NotParsed
  /\ mwKind = "errorBoundary"
  /\ mwThrower = FALSE
  /\ mwThrown = "none"
  /\ pendingUpdates = <<>>
  /\ updateScheduled = FALSE
  /\ mwSequential = gInitial
  /\ adUserId = "none"
  /\ adRenders = 0
  /\ adPromises = <<>>
  /\ adMemo = NoMemo
  /\ adUsed = 0
  /\ adView = "none"
  /\ adOp = "none"
  /\ isOnline = TRUE
  /\ errors = <<>>
  /\ erStorage = <<>>
  /\ erReported = 0
  /\ erDirect = [id \in 1..MaxReports |-> "none"]
  /\ erFlushes = <<>>

StoreSpec == StoreInit /\ [][StoreNext]_vars

\* An AdvancedErrorBoundary after its constructor, for every level and with
\* or without props.fallback.
BoundaryInit ==
  /\ state = initialState
  /\ persisted = NoItem
  /\ token = FALSE
  /\ calls = [i \in Ids |-> Idle]
  /\ nextId = 1
  /\ settled = NotSettled
  /\ gState = gInitial
  /\ gPersisted = NoItem
  /\ gListeners = {}
  /\ gSupplied = gInitial
  /\ gCreated = 1
  /\ gOp = "create"
  /\ gNotified = NoneNotified
  /\ gSeen = NotSeen
  /\ gWrote = FALSE
  /\ level \in Levels
  /\ customFallback \in BOOLEAN
  /\ onErrorGiven \in BOOLEAN
  /\ onErrorArg = "none"
  /\ mounted = TRUE
  /\ hasError = FALSE
  /\ stateError = "none"
  /\ retryCount = 0
  /\ retryTimeoutId = FALSE
  /\ retryTimer = 0
  /\ autoRetries = 0
  /\ riArg = 0
  /\ riLeft = 0
  /\ riPc = "idle"
  /\ riCalls = 0
  /\ riDelays = <<>>
  /\ riErrors = <<>>
  /\ riResult = "none"
  /\ ebFallback = "none"
  /\ ebOnError = FALSE
  /\ ebHasError = FALSE
  /\ ebError = "none"
  /\ ebOnErrorCalls = <<>>
  /\ themeMounted = FALSE
  /\ mode = "system"
  /\ theme = "base"
  /\ resolvedMode = "light"
  /\ prevThemeRef = "base"
  /\ prevResolvedModeRef = "light"
  /\ isInitializedRef = FALSE
  /\ timeoutId = NoTimeout
  /\ frames = <<>>
  /\ systemPreference = "light"
  /\ themeMode = "none"
  /\ themeConfig = "none"
  /\ rootClasses = {}
  /\ rootProperties = "none"
  /\ authTokenKey = "auth_token"
  /\ refreshTokenKey = "refresh_token"
  /\ apiStorage = [k \in EnvKeys |-> FALSE]
  /\ apiToken = FALSE
  /\ location = "/"
  /\ inFlight = <<>>
  /\ lastSettled = NotAnswered
  /\ formData = [emailOrUsername |-> <<>>, password |-> 0]
  /\ parseResult = NotParsed
  /\ mwKind = "errorBoundary"
  /\ mwThrower = FALSE
  /\ mwThrown = "none"
  /\ pendingUpdates = <<>>
  /\ updateScheduled = FALSE
  /\ mwSequential = gInitial
  /\ adUserId = "none"
  /\ adRenders = 0
  /\ adPromises = <<>>
  /\ adMemo = NoMemo
  /\ adUsed = 0
  /\ adView = "none"
  /\ adOp = "none"
  /\ isOnline = TRUE
  /\ errors = <<>>
  /\ erStorage = <<>>
  /\ erReported = 0
  /\ erDirect = [id \in 1..MaxReports |-> "none"]
  /\ erFlushes = <<>>

BoundarySpec == BoundaryInit /\ [][BoundaryNext]_vars

LazyInit ==
  /\ state = initialState
  /\ persisted = NoItem
  /\ token = FALSE
  /\ calls = [i \in Ids |-> Idle]
  /\ nextId = 1
  /\ settled = NotSettled
  /\ gState = gInitial
  /\ gPersisted = NoItem
  /\ gListeners = {}
  /\ gSupplied = gInitial
  /\ gCreated = 1
  /\ gOp = "create"
  /\ gNotified = NoneNotified
  /\ gSeen = NotSeen
  /\ gWrote = FALSE
  /\ level = "none"
  /\ customFallback = FALSE
  /\ onErrorGiven = FALSE
  /\ onErrorArg = "none"
  /\ mounted = TRUE
  /\ hasError = FALSE
  /\ stateError = "none"
  /\ retryCount = 0
  /\ retryTimeoutId = FALSE
  /\ retryTimer = 0
  /\ autoRetries = 0
  /\ riArg \in 0..MaxRetryCount
  /\ riLeft = riArg
  /\ riPc = "idle"
  /\ riCalls = 0
  /\ riDelays = <<>>
  /\ riErrors = <<>>
  /\ riResult = "none"
  /\ ebFallback \in Fallbacks
  /\ ebOnError \in BOOLEAN
  /\ ebHasError = FALSE
  /\ ebError = "none"
  /\ ebOnErrorCalls = <<>>
  /\ themeMounted = FALSE
  /\ mode = "system"
  /\ theme = "base"
  /\ resolvedMode = "light"
  /\ prevThemeRef = "base"
  /\ prevResolvedModeRef = "light"
  /\ isInitializedRef = FALSE
  /\ timeoutId = NoTimeout
  /\ frames = <<>>
  /\ systemPreference = "light"
  /\ themeMode = "none"
  /\ themeConfig = "none"
  /\ rootClasses = {}
  /\ rootProperties = "none"
  /\ authTokenKey = "auth_token"
  /\ refreshTokenKey = "refresh_token"
  /\ apiStorage = [k \in EnvKeys |-> FALSE]
  /\ apiToken = FALSE
  /\ location = "/"
  /\ inFlight = <<>>
  /\ lastSettled = NotAnswered
  /\ formData = [emailOrUsername |-> <<>>, password |-> 0]
  /\ parseResult = NotParsed
  /\ mwKind = "errorBoundary"
  /\ mwThrower = FALSE
  /\ mwThrown = "none"
  /\ pendingUpdates = <<>>
  /\ updateScheduled = FALSE
  /\ mwSequential = gInitial
  /\ adUserId = "none"
  /\ adRenders = 0
  /\ adPromises = <<>>
  /\ adMemo = NoMemo
  /\ adUsed = 0
  /\ adView = "none"
  /\ adOp = "none"
  /\ isOnline = TRUE
  /\ errors = <<>>
  /\ erStorage = <<>>
  /\ erReported = 0
  /\ erDirect = [id \in 1..MaxReports |-> "none"]
  /\ erFlushes = <<>>

LazySpec == LazyInit /\ [][LazyNext]_vars

ThemeInit ==
  /\ state = initialState
  /\ persisted = NoItem
  /\ token = FALSE
  /\ calls = [i \in Ids |-> Idle]
  /\ nextId = 1
  /\ settled = NotSettled
  /\ gState = gInitial
  /\ gPersisted = NoItem
  /\ gListeners = {}
  /\ gSupplied = gInitial
  /\ gCreated = 1
  /\ gOp = "create"
  /\ gNotified = NoneNotified
  /\ gSeen = NotSeen
  /\ gWrote = FALSE
  /\ level = "none"
  /\ customFallback = FALSE
  /\ onErrorGiven = FALSE
  /\ onErrorArg = "none"
  /\ mounted = TRUE
  /\ hasError = FALSE
  /\ stateError = "none"
  /\ retryCount = 0
  /\ retryTimeoutId = FALSE
  /\ retryTimer = 0
  /\ autoRetries = 0
  /\ riArg = 0
  /\ riLeft = 0
  /\ riPc = "idle"
  /\ riCalls = 0
  /\ riDelays = <<>>
  /\ riErrors = <<>>
  /\ riResult = "none"
  /\ ebFallback = "none"
  /\ ebOnError = FALSE
  /\ ebHasError = FALSE
  /\ ebError = "none"
  /\ ebOnErrorCalls = <<>>
  /\ themeMounted = FALSE
  /\ mode = "system"
  /\ theme = "base"
  /\ resolvedMode = "light"
  /\ prevThemeRef = "base"
  /\ prevResolvedModeRef = "light"
  /\ isInitializedRef = FALSE
  /\ timeoutId = NoTimeout
  /\ frames = <<>>
  /\ systemPreference \in {"light", "dark"}
  /\ themeMode \in StoredModes
  /\ themeConfig \in StoredConfigs
  /\ rootClasses = {}
  /\ rootProperties = "none"
  /\ authTokenKey = "auth_token"
  /\ refreshTokenKey = "refresh_token"
  /\ apiStorage = [k \in EnvKeys |-> FALSE]
  /\ apiToken = FALSE
  /\ location = "/"
  /\ inFlight = <<>>
  /\ lastSettled = NotAnswered
  /\ formData = [emailOrUsername |-> <<>>, password |-> 0]
  /\ parseResult = NotParsed
  /\ mwKind = "errorBoundary"
  /\ mwThrower = FALSE
  /\ mwThrown = "none"
  /\ pendingUpdates = <<>>
  /\ updateScheduled = FALSE
  /\ mwSequential = gInitial
  /\ adUserId = "none"
  /\ adRenders = 0
  /\ adPromises = <<>>
  /\ adMemo = NoMemo
  /\ adUsed = 0
  /\ adView = "none"
  /\ adOp = "none"
  /\ isOnline = TRUE
  /\ errors = <<>>
  /\ erStorage = <<>>
  /\ erReported = 0
  /\ erDirect = [id \in 1..MaxReports |-> "none"]
  /\ erFlushes = <<>>

ThemeSpec == ThemeInit /\ [][ThemeNext]_vars

ApiInit ==
  /\ state = initialState
  /\ persisted = NoItem
  /\ token = FALSE
  /\ calls = [i \in Ids |-> Idle]
  /\ nextId = 1
  /\ settled = NotSettled
  /\ gState = gInitial
  /\ gPersisted = NoItem
  /\ gListeners = {}
  /\ gSupplied = gInitial
  /\ gCreated = 1
  /\ gOp = "create"
  /\ gNotified = NoneNotified
  /\ gSeen = NotSeen
  /\ gWrote = FALSE
  /\ level = "none"
  /\ customFallback = FALSE
  /\ onErrorGiven = FALSE
  /\ onErrorArg = "none"
  /\ mounted = TRUE
  /\ hasError = FALSE
  /\ stateError = "none"
  /\ retryCount = 0
  /\ retryTimeoutId = FALSE
  /\ retryTimer = 0
  /\ autoRetries = 0
  /\ riArg = 0
  /\ riLeft = 0
  /\ riPc = "idle"
  /\ riCalls = 0
  /\ riDelays = <<>>
  /\ riErrors = <<>>
  /\ riResult = "none"
  /\ ebFallback = "none"
  /\ ebOnError = FALSE
  /\ ebHasError = FALSE
  /\ ebError = "none"
  /\ ebOnErrorCalls = <<>>
  /\ themeMounted = FALSE
  /\ mode = "system"
  /\ theme = "base"
  /\ resolvedMode = "light"
  /\ prevThemeRef = "base"
  /\ prevResolvedModeRef = "light"
  /\ isInitializedRef = FALSE
  /\ timeoutId = NoTimeout
  /\ frames = <<>>
  /\ systemPreference = "light"
  /\ themeMode = "none"
  /\ themeConfig = "none"
  /\ rootClasses = {}
  /\ rootProperties = "none"
  /\ authTokenKey \in AuthTokenKeys
  /\ refreshTokenKey = "refresh_token"
  /\ apiStorage \in [EnvKeys -> BOOLEAN]
  /\ apiToken \in BOOLEAN
  /\ location = "/"
  /\ inFlight = <<>>
  /\ lastSettled = NotAnswered
  /\ formData = [emailOrUsername |-> <<>>, password |-> 0]
  /\ parseResult = NotParsed
  /\ mwKind = "errorBoundary"
  /\ mwThrower = FALSE
  /\ mwThrown = "none"
  /\ pendingUpdates = <<>>
  /\ updateScheduled = FALSE
  /\ mwSequential = gInitial
  /\ adUserId = "none"
  /\ adRenders = 0
  /\ adPromises = <<>>
  /\ adMemo = NoMemo
  /\ adUsed = 0
  /\ adView = "none"
  /\ adOp = "none"
  /\ isOnline = TRUE
  /\ errors = <<>>
  /\ erStorage = <<>>
  /\ erReported = 0
  /\ erDirect = [id \in 1..MaxReports |-> "none"]
  /\ erFlushes = <<>>

ApiSpec == ApiInit /\ [][ApiNext]_vars

SchemaInit ==
  /\ state = initialState
  /\ persisted = NoItem
  /\ token = FALSE
  /\ calls = [i \in Ids |-> Idle]
  /\ nextId = 1
  /\ settled = NotSettled
  /\ gState = gInitial
  /\ gPersisted = NoItem
  /\ gListeners = {}
  /\ gSupplied = gInitial
  /\ gCreated = 1
  /\ gOp = "create"
  /\ gNotified = NoneNotified
  /\ gSeen = NotSeen
  /\ gWrote = FALSE
  /\ level = "none"
  /\ customFallback = FALSE
  /\ onErrorGiven = FALSE
  /\ onErrorArg = "none"
  /\ mounted = TRUE
  /\ hasError = FALSE
  /\ stateError = "none"
  /\ retryCount = 0
  /\ retryTimeoutId = FALSE
  /\ retryTimer = 0
  /\ autoRetries = 0
  /\ riArg = 0
  /\ riLeft = 0
  /\ riPc = "idle"
  /\ riCalls = 0
  /\ riDelays = <<>>
  /\ riErrors = <<>>
  /\ riResult = "none"
  /\ ebFallback = "none"
  /\ ebOnError = FALSE
  /\ ebHasError = FALSE
  /\ ebError = "none"
  /\ ebOnErrorCalls = <<>>
  /\ themeMounted = FALSE
  /\ mode = "system"
  /\ theme = "base"
  /\ resolvedMode = "light"
  /\ prevThemeRef = "base"
  /\ prevResolvedModeRef = "light"
  /\ isInitializedRef = FALSE
  /\ timeoutId = NoTimeout
  /\ frames = <<>>
  /\ systemPreference = "light"
  /\ themeMode = "none"
  /\ themeConfig = "none"
  /\ rootClasses = {}
  /\ rootProperties = "none"
  /\ authTokenKey = "auth_token"
  /\ refreshTokenKey = "refresh_token"
  /\ apiStorage = [k \in EnvKeys |-> FALSE]
  /\ apiToken = FALSE
  /\ location = "/"
  /\ inFlight = <<>>
  /\ lastSettled = NotAnswered
  /\ formData \in [emailOrUsername : Identifiers, password : 0..MaxPasswordLength]
  /\ parseResult = NotParsed
  /\ mwKind = "errorBoundary"
  /\ mwThrower = FALSE
  /\ mwThrown = "none"
  /\ pendingUpdates = <<>>
  /\ updateScheduled = FALSE
  /\ mwSequential = gInitial
  /\ adUserId = "none"
  /\ adRenders = 0
  /\ adPromises = <<>>
  /\ adMemo = NoMemo
  /\ adUsed = 0
  /\ adView = "none"
  /\ adOp = "none"
  /\ isOnline = TRUE
  /\ errors = <<>>
  /\ erStorage = <<>>
  /\ erReported = 0
  /\ erDirect = [id \in 1..MaxReports |-> "none"]
  /\ erFlushes = <<>>

SchemaSpec == SchemaInit /\ [][SchemaNext]_vars

MiddlewareInit ==
  /\ state = initialState
  /\ persisted = NoItem
  /\ token = FALSE
  /\ calls = [i \in Ids |-> Idle]
  /\ nextId = 1
  /\ settled = NotSettled
  /\ gState = gInitial
  /\ gPersisted = NoItem
  /\ gListeners = {}
  /\ gSupplied = gInitial
  /\ gCreated = 1
  /\ gOp = "create"
  /\ gNotified = NoneNotified
  /\ gSeen = NotSeen
  /\ gWrote = FALSE
  /\ level = "none"
  /\ customFallback = FALSE
  /\ onErrorGiven = FALSE
  /\ onErrorArg = "none"
  /\ mounted = TRUE
  /\ hasError = FALSE
  /\ stateError = "none"
  /\ retryCount = 0
  /\ retryTimeoutId = FALSE
  /\ retryTimer = 0
  /\ autoRetries = 0
  /\ riArg = 0
  /\ riLeft = 0
  /\ riPc = "idle"
  /\ riCalls = 0
  /\ riDelays = <<>>
  /\ riErrors = <<>>
  /\ riResult = "none"
  /\ ebFallback = "none"
  /\ ebOnError = FALSE
  /\ ebHasError = FALSE
  /\ ebError = "none"
  /\ ebOnErrorCalls = <<>>
  /\ themeMounted = FALSE
  /\ mode = "system"
  /\ theme = "base"
  /\ resolvedMode = "light"
  /\ prevThemeRef = "base"
  /\ prevResolvedModeRef = "light"
  /\ isInitializedRef = FALSE
  /\ timeoutId = NoTimeout
  /\ frames = <<>>
  /\ systemPreference = "light"
  /\ themeMode = "none"
  /\ themeConfig = "none"
  /\ rootClasses = {}
  /\ rootProperties = "none"
  /\ authTokenKey = "auth_token"
  /\ refreshTokenKey = "refresh_token"
  /\ apiStorage = [k \in EnvKeys |-> FALSE]
  /\ apiToken = FALSE
  /\ location = "/"
  /\ inFlight = <<>>
  /\ lastSettled = NotAnswered
  /\ formData = [emailOrUsername |-> <<>>, password |-> 0]
  /\ parseResult = NotParsed
  /\ mwKind \in Middlewares
  /\ mwThrower = FALSE
  /\ mwThrown = "none"
  /\ pendingUpdates = <<>>
  /\ updateScheduled = FALSE
  /\ mwSequential = gInitial
  /\ adUserId = "none"
  /\ adRenders = 0
  /\ adPromises = <<>>
  /\ adMemo = NoMemo
  /\ adUsed = 0
  /\ adView = "none"
  /\ adOp = "none"
  /\ isOnline = TRUE
  /\ errors = <<>>
  /\ erStorage = <<>>
  /\ erReported = 0
  /\ erDirect = [id \in 1..MaxReports |-> "none"]
  /\ erFlushes = <<>>

MiddlewareSpec == MiddlewareInit /\ [][MiddlewareNext]_vars

AsyncDataInit ==
  /\ state = initialState
  /\ persisted = NoItem
  /\ token = FALSE
  /\ calls = [i \in Ids |-> Idle]
  /\ nextId = 1
  /\ settled = NotSettled
  /\ gState = gInitial
  /\ gPersisted = NoItem
  /\ gListeners = {}
  /\ gSupplied = gInitial
  /\ gCreated = 1
  /\ gOp = "create"
  /\ gNotified = NoneNotified
  /\ gSeen = NotSeen
  /\ gWrote = FALSE
  /\ level = "none"
  /\ customFallback = FALSE
  /\ onErrorGiven = FALSE
  /\ onErrorArg = "none"
  /\ mounted = TRUE
  /\ hasError = FALSE
  /\ stateError = "none"
  /\ retryCount = 0
  /\ retryTimeoutId = FALSE
  /\ retryTimer = 0
  /\ autoRetries = 0
  /\ riArg = 0
  /\ riLeft = 0
  /\ riPc = "idle"
  /\ riCalls = 0
  /\ riDelays = <<>>
  /\ riErrors = <<>>
  /\ riResult = "none"
  /\ ebFallback = "none"
  /\ ebOnError = FALSE
  /\ ebHasError = FALSE
  /\ ebError = "none"
  /\ ebOnErrorCalls = <<>>
  /\ themeMounted = FALSE
  /\ mode = "system"
  /\ theme = "base"
  /\ resolvedMode = "light"
  /\ prevThemeRef = "base"
  /\ prevResolvedModeRef = "light"
  /\ isInitializedRef = FALSE
  /\ timeoutId = NoTimeout
  /\ frames = <<>>
  /\ systemPreference = "light"
  /\ themeMode = "none"
  /\ themeConfig = "none"
  /\ rootClasses = {}
  /\ rootProperties = "none"
  /\ authTokenKey = "auth_token"
  /\ refreshTokenKey = "refresh_token"
  /\ apiStorage = [k \in EnvKeys |-> FALSE]
  /\ apiToken = FALSE
  /\ location = "/"
  /\ inFlight = <<>>
  /\ lastSettled = NotAnswered
  /\ formData = [emailOrUsername |-> <<>>, password |-> 0]
  /\ parseResult = NotParsed
  /\ mwKind = "errorBoundary"
  /\ mwThrower = FALSE
  /\ mwThrown = "none"
  /\ pendingUpdates = <<>>
  /\ updateScheduled = FALSE
  /\ mwSequential = gInitial
  /\ adUserId = "none"
  /\ adRenders = 0
  /\ adPromises = <<>>
  /\ adMemo = NoMemo
  /\ adUsed = 0
  /\ adView = "none"
  /\ adOp = "none"
  /\ isOnline = TRUE
  /\ errors = <<>>
  /\ erStorage = <<>>
  /\ erReported = 0
  /\ erDirect = [id \in 1..MaxReports |-> "none"]
  /\ erFlushes = <<>>

AsyncDataSpec == AsyncDataInit /\ [][AsyncDataNext]_vars

ReportingInit ==
  /\ state = initialState
  /\ persisted = NoItem
  /\ token = FALSE
  /\ calls = [i \in Ids |-> Idle]
  /\ nextId = 1
  /\ settled = NotSettled
  /\ gState = gInitial
  /\ gPersisted = NoItem
  /\ gListeners = {}
  /\ gSupplied = gInitial
  /\ gCreated = 1
  /\ gOp = "create"
  /\ gNotified = NoneNotified
  /\ gSeen = NotSeen
  /\ gWrote = FALSE
  /\ level = "none"
  /\ customFallback = FALSE
  /\ onErrorGiven = FALSE
  /\ onErrorArg = "none"
  /\ mounted = TRUE
  /\ hasError = FALSE
  /\ stateError = "none"
  /\ retryCount = 0
  /\ retryTimeoutId = FALSE
  /\ retryTimer = 0
  /\ autoRetries = 0
  /\ riArg = 0
  /\ riLeft = 0
  /\ riPc = "idle"
  /\ riCalls = 0
  /\ riDelays = <<>>
  /\ riErrors = <<>>
  /\ riResult = "none"
  /\ ebFallback = "none"
  /\ ebOnError = FALSE
  /\ ebHasError = FALSE
  /\ ebError = "none"
  /\ ebOnErrorCalls = <<>>
  /\ themeMounted = FALSE
  /\ mode = "system"
  /\ theme = "base"
  /\ resolvedMode = "light"
  /\ prevThemeRef = "base"
  /\ prevResolvedModeRef = "light"
  /\ isInitializedRef = FALSE
  /\ timeoutId = NoTimeout
  /\ frames = <<>>
  /\ systemPreference = "light"
  /\ themeMode = "none"
  /\ themeConfig = "none"
  /\ rootClasses = {}
  /\ rootProperties = "none"
  /\ authTokenKey = "auth_token"
  /\ refreshTokenKey = "refresh_token"
  /\ apiStorage = [k \in EnvKeys |-> FALSE]
  /\ apiToken = FALSE
  /\ location = "/"
  /\ inFlight = <<>>
  /\ lastSettled = NotAnswered
  /\ formData = [emailOrUsername |-> <<>>, password |-> 0]
  /\ parseResult = NotParsed
  /\ mwKind = "errorBoundary"
  /\ mwThrower = FALSE
  /\ mwThrown = "none"
  /\ pendingUpdates = <<>>
  /\ updateScheduled = FALSE
  /\ mwSequential = gInitial
  /\ adUserId = "none"
  /\ adRenders = 0
  /\ adPromises = <<>>
  /\ adMemo = NoMemo
  /\ adUsed = 0
  /\ adView = "none"
  /\ adOp = "none"
  /\ isOnline \in BOOLEAN
  /\ errors = <<>>
  /\ erStorage = <<>>
  /\ erReported = 0
  /\ erDirect = [id \in 1..MaxReports |-> "none"]
  /\ erFlushes = <<>>

ReportingSpec == ReportingInit /\ [][ReportingNext]_vars

(***************************************************************************)
(* Properties of the auth store and of createActions.                      *)
(***************************************************************************)
AsyncNames == {"login", "logout", "initialize"}

InFlight(i, act) == calls[i].act = act /\ calls[i].pc # "idle"

\* This step is the invocation of action act, as invocation i.
Invoked(i, act) == calls[i].act = "none" /\ calls'[i].act = act

\* This step settles invocation i of action act with the given outcome.
Settles(i, act, outcome) ==
  /\ InFlight(i, act)
  /\ settled'.id = i
  /\ settled'.outcome = outcome

\* C1: an action built by createOptimisticAction applies its optimistic update
\* to the store in the step that invokes it, before asyncFn has settled; when
\* asyncFn rejects, every key of the state snapshot taken at invocation holds
\* its snapshot value again (a key the snapshot did not have keeps its value)
\* and the error asyncFn threw is the one the caller gets.
C1_OptimisticApplyThenRevert ==
  [][\A i \in Ids :
       /\ Invoked(i, "updateProfile") =>
            /\ state' = Spread(state, optimisticUpdate(state, calls'[i].arg, OptRef(i)))
            /\ calls'[i].snap = state
            /\ calls'[i].pc = "fetching"
       /\ Settles(i, "updateProfile", "rejected") =>
            /\ \A k \in Keys :
                 state'[k] = IF calls[i].snap[k] # Absent THEN calls[i].snap[k] ELSE state[k]
            /\ \E msg \in ProfileErrors : settled'.error = Err(msg, SrvRef(i))
    ]_vars

\* An updateProfile has failed and its revert put a user back.
C1_Witness ==
  /\ settled.act = "updateProfile"
  /\ settled.outcome = "rejected"
  /\ state["user"].t = "user"
  /\ state["user"].n # OptRef(settled.id)

\* C2: while an invocation of an action built by createAsyncAction(name, fn) is
\* in flight (invoked, fn not settled), `${name}Loading` is true.
C2_LoadingWhileInFlight ==
  \A i \in Ids, name \in AsyncNames :
    InFlight(i, name) => state[loadingKey(name)] = True

\* C3: when fn rejects, `${name}Error` holds the thrown error and
\* `${name}Loading` is false; when fn resolves, `${name}Error` is null.
C3_ErrorAfterSettle ==
  [][\A i \in Ids, name \in AsyncNames :
       /\ Settles(i, name, "rejected") =>
            /\ state'[errorKey(name)] = settled'.error
            /\ state'[loadingKey(name)] = False
       /\ Settles(i, name, "resolved") => state'[errorKey(name)] = Null
    ]_vars

\* C4: when login resolves the store holds the user the server returned,
\* isAuthenticated = true, error = null, and the token is stored; when logout
\* resolves the store holds user = null, isAuthenticated = false and the token
\* is removed; no step of a login that fails changes user or isAuthenticated.
C4_AuthPostconditions ==
  [][\A i \in Ids :
       /\ Settles(i, "login", "resolved") =>
            /\ settled'.value.t = "user"
            /\ state'["user"] = settled'.value
            /\ state'["isAuthenticated"] = True
            /\ state'["error"] = Null
            /\ token'
       /\ Settles(i, "logout", "resolved") =>
            /\ state'["user"] = Null
            /\ state'["isAuthenticated"] = False
            /\ ~token'
       /\ (Invoked(i, "login") \/ Settles(i, "login", "rejected")) =>
            /\ state'["user"] = state["user"]
            /\ state'["isAuthenticated"] = state["isAuthenticated"]
    ]_vars

\* A login has resolved: the store holds the returned user and the token.
C4_Witness ==
  /\ settled.act = "login"
  /\ settled.outcome = "resolved"
  /\ state["user"] = settled.value
  /\ token

\* C5: while an updateProfile request is in flight, updateProfileLoading is
\* true.
C5_UpdateProfileLoading ==
  \A i \in Ids :
    InFlight(i, "updateProfile") => state["updateProfileLoading"] = True

\* This step is a page load (no invocation is started by it).
IsReload == nextId' = nextId + 1 /\ \A i \in Ids : calls'[i] = Idle

\* A value without its identity: two states are deep-equal when they agree on
\* the contents of every key.
Content(v) == [v EXCEPT !.n = 0]

DeepEqual(a, b) == \A k \in Keys : Content(a[k]) = Content(b[k])

\* C6: after a state-changing setState the item under persistKey is the
\* serialization of the current state; a store created later starts from
\* initialState overlaid with the stored state, so that re-creating a store
\* whose state was persisted gives that state back; when the item cannot be
\* parsed the new store starts from initialState.
C6_PersistRoundTrip ==
  [][/\ (~IsReload /\ state' # state) => persisted' = Item(JSONstringify(state'))
     /\ (IsReload /\ persisted'.kind = "json") =>
          /\ DeepEqual(state', Spread(initialState, JSONparse(persisted'.json, 0)))
          /\ persisted = Item(JSONstringify(state)) => DeepEqual(state', state)
     /\ (IsReload /\ persisted'.kind = "garbage") => state' = initialState
    ]_vars

(***************************************************************************)
(* Properties of the base store.                                           *)
(***************************************************************************)
\* C7: after any sequence of setState calls every key of the store holds the
\* value given by the latest call that included the key (for a function
\* argument: the value the function gives for the state current at that call),
\* and a key no call has given holds what it held when the store was created.
C7_LastWriteWins == \A k \in DOMAIN gState : gState[k] = gSupplied[k]

\* Two calls have written different keys and a later call has overwritten one.
C7_Witness ==
  /\ gState["a"] = Num(2)
  /\ gState["b"] = Num(1)
  /\ gState["c"] = Num(0)

\* C21: a setState (with an object or with a function) whose merged result is
\* shallow-equal to the current state leaves getState() as it was, calls no
\* listener and writes nothing to localStorage.
C21_NoChangeNoEffect ==
  [][/\ \A partial \in Partials :
          (setStateObject(partial) /\ shallowEqual(gState, Spread(gState, partial))) =>
             /\ gState' = gState
             /\ gNotified' = NoneNotified
             /\ ~gWrote'
             /\ gPersisted' = gPersisted
     /\ \A fn \in Updaters :
          (setStateFunction(fn) /\ shallowEqual(gState, Spread(gState, Apply(fn, gState)))) =>
             /\ gState' = gState
             /\ gNotified' = NoneNotified
             /\ ~gWrote'
             /\ gPersisted' = gPersisted
    ]_vars

\* A setState that changed nothing has run on a store that has listeners and
\* a persisted entry.
C21_Witness ==
  /\ gOp = "setState"
  /\ ~gWrote
  /\ gNotified = NoneNotified
  /\ gListeners = Listeners
  /\ gPersisted # NoItem
  /\ gState # gInitial

C8_RetryBackoff ==
  /\ [](/\ retryCount <= maxRetries
        /\ autoRetries <= maxRetries
        /\ (hasError /\ retryCount = maxRetries) => retryTimer = 0
        /\ level # "component" => retryTimer = 0
        /\ ~mounted => retryTimer = 0)
  /\ [][(~hasError /\ hasError' /\ level = "component") =>
          /\ retryCount = 0 => retryTimer' = 1000
          /\ retryCount = 1 => retryTimer' = 2000
          /\ retryCount = 2 => retryTimer' = 4000
          /\ retryCount >= maxRetries => retryTimer' = 0
       ]_vars

\* The third automatic retry has failed too: the boundary is in the error state
\* and no retry is pending.
C8_Witness ==
  /\ level = "component"
  /\ hasError
  /\ autoRetries = 3
  /\ retryCount = maxRetries
  /\ retryTimer = 0

(***************************************************************************)
(* Properties of retryImport and of ErrorBoundary.                         *)
(***************************************************************************)

\* C9: retryImport(importFn, retryCount) calls importFn at most retryCount + 1
\* times; once an attempt succeeds its result is what is returned and importFn
\* is not called again; before every attempt but the first there is exactly
\* one wait, each wait twice as long as the one before (1s, 2s, 4s when
\* retryCount is 3); and when every attempt fails, retryCount + 1 calls were
\* made and the promise rejects with the error of the last attempt.
C9_RetryImport ==
  /\ [](/\ riCalls <= riArg + 1
        /\ riPc = "resolved" =>
             /\ riResult \in Modules
             /\ riCalls = Len(riErrors) + 1
        /\ riPc = "rejected" =>
             /\ riCalls = riArg + 1
             /\ Len(riErrors) = riArg + 1
             /\ riResult = riErrors[Len(riErrors)]
        /\ riPc \in {"importing", "resolved", "rejected"} => Len(riDelays) = riCalls - 1
        /\ riPc = "waiting" => Len(riDelays) = riCalls
        /\ \A i \in 2..Len(riDelays) : riDelays[i] = 2 * riDelays[i - 1]
        /\ riArg = 3 =>
             \A i \in 1..Len(riDelays) : riDelays[i] = <<1000, 2000, 4000>>[i])
  /\ [][(riPc = "resolved" \/ riPc = "rejected") =>
          /\ riCalls' = riCalls
          /\ riResult' = riResult
          /\ riPc' = riPc
       ]_vars

\* Every attempt of retryImport(importFn, 3) has failed, with different errors,
\* after waits of 1s, 2s and 4s.
C9_Witness ==
  /\ riArg = 3
  /\ riPc = "rejected"
  /\ riCalls = 4
  /\ riDelays = <<1000, 2000, 4000>>
  /\ riErrors[4] # riErrors[3]
  /\ riResult = riErrors[4]

\* C10: once ErrorBoundary has caught an error it renders, in every later
\* state and whatever props it is given later, the fallback function applied
\* to the caught error, else the fallback node, else the default error UI, and
\* never the children; the caught error stays the one in the state; and
\* catching an error calls props.onError (when given) exactly once, with that
\* error.
C10_FallbackForever ==
  /\ [](ebHasError =>
          /\ ebError \in Errors
          /\ ErrorBoundary_render.shows # "children"
          /\ ebFallback = "function" =>
               ErrorBoundary_render = [shows |-> "fallback(error)", error |-> ebError]
          /\ ebFallback = "node" =>
               ErrorBoundary_render = [shows |-> "fallback", error |-> "none"]
          /\ ebFallback = "none" =>
               ErrorBoundary_render = [shows |-> "default error UI", error |-> ebError])
  /\ [](~ebHasError => ebOnErrorCalls = <<>>)
  /\ [][/\ ebHasError => (ebHasError' /\ ebError' = ebError /\ ebOnErrorCalls' = ebOnErrorCalls)
        /\ (~ebHasError /\ ebHasError') =>
             ebOnErrorCalls' = IF ebOnError THEN <<ebError'>> ELSE <<>>
       ]_vars

\* The boundary caught the error retryImport rejected with, called onError
\* once with it, and shows the fallback node.
C10_Witness ==
  /\ ebHasError
  /\ riPc = "rejected"
  /\ ebError = riResult
  /\ ebOnErrorCalls = <<ebError>>
  /\ ebFallback = "node"
  /\ ErrorBoundary_render.shows = "fallback"

(***************************************************************************)
(* Properties of ThemeProvider.                                            *)
(***************************************************************************)

\* C11: once theme and resolvedMode have stopped changing and no debounce
\* timeout and no animation-frame callback is pending any more, the document
\* root carries exactly one of the classes 'light'/'dark', the one equal to
\* resolvedMode, and the custom properties of the current theme.
C11_RootFollowsTheme ==
  (themeMounted /\ timeoutId = NoTimeout /\ frames = <<>>) =>
    /\ rootClasses \cap {"light", "dark"} = {resolvedMode}
    /\ rootProperties = theme

\* C12: once the provider is mounted and its effects have run, resolvedMode is
\* mode when mode is 'light' or 'dark' and the system preference when mode is
\* 'system'; a change of the system preference changes resolvedMode only
\* while mode is 'system'.
C12_ResolvedMode ==
  /\ [](themeMounted =>
          /\ mode \in {"light", "dark"} => resolvedMode = mode
          /\ mode = "system" => resolvedMode = systemPreference)
  /\ [][(systemPreference' # systemPreference /\ mode # "system") =>
          resolvedMode' = resolvedMode
       ]_vars

\* The mode is 'system', the system prefers dark and resolvedMode is 'dark'.
C12_Witness ==
  /\ themeMounted
  /\ mode = "system"
  /\ systemPreference = "dark"
  /\ resolvedMode = "dark"

\* C13: when loading the saved preferences fails because 'theme-config' is not
\* valid JSON, the mount removes 'theme-mode' and 'theme-config' from
\* localStorage and the provider continues with mode 'system' and baseTheme.
C13_ResetToDefaults ==
  [][(~themeMounted /\ themeMounted' /\ themeConfig = "notJSON") =>
       /\ themeMode' = "none"
       /\ themeConfig' = "none"
       /\ mode' = "system"
       /\ theme' = "base"
    ]_vars

(***************************************************************************)
(* Properties of the API client.                                           *)
(***************************************************************************)

\* C14: when a response with status 401 arrives, the localStorage entries
\* under env.AUTH_TOKEN_KEY and env.AUTH_REFRESH_TOKEN_KEY are removed, the
\* location becomes '/login' and the request is rejected with that status;
\* a response with any other error status (or no response) leaves every
\* stored entry as it was, and is rejected too.
C14_Unauthorized ==
  [][\A status \in Statuses :
       (Len(inFlight') < Len(inFlight) /\ lastSettled'.status = status) =>
          /\ status = 401 =>
               /\ ~getItem(authTokenKey)'
               /\ ~getItem(refreshTokenKey)'
               /\ location' = "/login"
               /\ lastSettled' = [kind |-> "rejected", status |-> 401]
          /\ status # 401 =>
               /\ apiStorage' = apiStorage
               /\ apiToken' = apiToken
               /\ location' = location
          /\ status \notin 200..299 => lastSettled'.kind = "rejected"
    ]_vars

\* A 401 has been answered while both tokens were stored: both are gone and
\* the location is '/login'.
C14_Witness ==
  /\ lastSettled = [kind |-> "rejected", status |-> 401]
  /\ location = "/login"
  /\ ~getItem(authTokenKey)
  /\ ~getItem(refreshTokenKey)
  /\ authTokenKey = "auth-token"
  /\ apiStorage["auth_token"]

(***************************************************************************)
(* Properties of loginSchema.                                              *)
(***************************************************************************)

\* C15: loginSchema raises no issue about the password exactly when the
\* password has at least 6 and less than 128 characters, as the two messages
\* 'Password must be at least 6 characters' and 'Password must be less than
\* 128 characters' state.
C15_PasswordLength ==
  parseResult # NotParsed =>
    LET accepted == parseResult.issues \cap
                      {"Password must be at least 6 characters",
                       "Password must be less than 128 characters"} = {}
    IN accepted <=> (formData.password >= 6 /\ formData.password < 128)

(***************************************************************************)
(* Properties of the auth store under interleavings.                       *)
(***************************************************************************)

NoneInFlight == \A i \in Ids : calls[i].pc = "idle"

\* C16: while the invocation that settled last is a logout that resolved, every
\* step leaves isAuthenticated = false and user = null, unless the step is a
\* login or an initializeAuth that resolves; in particular a step that
\* resolves or rejects an updateProfile invoked before the logout.
C16_LoggedOutStays ==
  [][(settled.act = "logout" /\ settled.outcome = "resolved") =>
       \/ /\ state'["user"] = Null
          /\ state'["isAuthenticated"] = False
       \/ \E i \in Ids : \/ Settles(i, "login", "resolved")
                         \/ Settles(i, "initialize", "resolved")
    ]_vars

\* C17: when an optimistic action fails, the revert undoes only the action's
\* own optimistic change: every key other than user keeps the value it has,
\* and user goes back to its snapshot value only if it still holds the
\* action's optimistic value, and otherwise keeps the value written since.
C17_RevertOnlyOwnChange ==
  [][\A i \in Ids :
       Settles(i, "updateProfile", "rejected") =>
         /\ \A k \in Keys \ {"user"} : state'[k] = state[k]
         /\ state'["user"] = IF state["user"].t = "user" /\ state["user"].n = OptRef(i)
                               THEN calls[i].snap["user"]
                               ELSE state["user"]
    ]_vars

\* C18: in every reachable state isAuthenticated is true exactly when user is
\* not null.
C18_AuthenticatedIffUser ==
  (state["isAuthenticated"] = True) <=> (state["user"] # Null)

\* C19: in every reachable state, for every action name given to
\* createAsyncAction, `${name}Loading` is true exactly when at least one
\* invocation of that action is in flight.
C19_LoadingIffInFlight ==
  \A name \in AsyncNames :
    (state[loadingKey(name)] = True) <=> (\E i \in Ids : InFlight(i, name))

\* C20: whenever no auth action is in flight and the store reports
\* isAuthenticated = true, localStorage holds an 'auth-token'.
C20_AuthenticatedHasToken ==
  (NoneInFlight /\ state["isAuthenticated"] = True) => token

(***************************************************************************)
(* Properties of the store middleware.                                     *)
(***************************************************************************)

\* C23: when a setState through errorBoundaryMiddleware throws (the updater
\* function throws, or a listener throws while being notified), the store
\* holds, after the call, the state it held before the call, and the error is
\* rethrown.
C23_RecoversPreviousState ==
  [][(mwKind = "errorBoundary" /\ gOp' = "setState" /\ mwThrown' # "none") =>
       gState' = gState
    ]_vars

\* C24: when the scheduled flush of batchingMiddleware runs, the pending
\* updates are applied by one base setState and the resulting state equals the
\* state obtained by applying the same updates (objects, or updater functions
\* of the state) one by one in call order without batching.
C24_BatchEqualsSequential ==
  [][(mwKind = "batching" /\ updateScheduled /\ ~updateScheduled') =>
       /\ pendingUpdates' = <<>>
       /\ gState' = mwSequential
    ]_vars

(***************************************************************************)
(* Properties of the AdvancedErrorBoundary fallback                        *)
(***************************************************************************)

\* C25: whenever the boundary shows its default fallback for level 'component'
\* or 'feature', either an automatic retry timer is pending or the fallback
\* offers the manual retry button.
C25_RecoveryPossible ==
  (mounted /\ hasError /\ ~customFallback /\ level \in {"component", "feature"}) =>
    (retryTimer # 0 \/ showsRetryButton)

(***************************************************************************)
(* Properties of useAsyncData                                              *)
(***************************************************************************)

\* C26: when DashboardContent renders again with the same userId,
\* promiseFactory is not called again and the render uses the promise the
\* render before it used.
C26_PromiseMemoized ==
  [][(adOp' = "render" /\ adRenders >= 1 /\ adRenders' = adRenders + 1
        /\ adUserId' = adUserId) =>
       /\ Len(adPromises') = Len(adPromises)
       /\ adUsed' = adUsed
    ]_vars

(***************************************************************************)
(* Properties of the error reporting service                               *)
(***************************************************************************)

\* The numbers of the reports in this.errors.
storedIds == {errors[i].id : i \in 1..Len(errors)}

C28_FlushStopsOnFailure ==
  \A f \in 1..Len(erFlushes) :
    \A i \in 1..Len(erFlushes[f].sends) :
      erFlushes[f].sends[i] = "failed" => i = Len(erFlushes[f].sends)

\* C29: every report recorded by reportPerformanceIssue has a value above its
\* threshold, and its severity is 'high' when the value is more than twice
\* the threshold and 'medium' otherwise.
C29_PerformanceSeverity ==
  \A i \in 1..Len(errors) :
    LET r == errors[i]
    IN r.context.level = "performance" =>
         /\ r.context.value > r.context.threshold
         /\ r.severity =
              IF r.context.value > 2 * r.context.threshold THEN "high" ELSE "medium"

====
